---- MODULE Spec2Model ----
(***************************************************************************)
(* Class/task adaptation core of the model-preparation stages:             *)
(*   - the class-name mapping and its call sites (label remapper,          *)
(*     evaluation wrapper, segmentation statistics, detector weight mixer),*)
(*   - the class and task refiners (refine_cls, refine_tasks),             *)
(*   - ClsStage.configure_task and TaskAdaptHook.before_epoch.             *)
(* Python lists are sequences; the VALUES stored in index mappings and     *)
(* label lists are Python's 0-based indices (-1 is the "absent" marker),   *)
(* read through PyGet, which has Python's negative-index wrap-around.      *)
(***************************************************************************)
EXTENDS Integers, Sequences, FiniteSets, TLC

(***************************************************************************)
(* Bounds of the model.                                                    *)
(***************************************************************************)
MaxLen == 3        \* longest class list given to a mapping call site
MaxBoxes == 2      \* most ground-truth boxes in one detection sample

(***************************************************************************)
(* Class names.  NameOrder lists them in code-point order, the order in    *)
(* which Python and numpy compare strings ("A" < "a" < "b"); "A" and "a"   *)
(* differ only by case.                                                    *)
(***************************************************************************)
NameOrder == <<"A", "a", "b">>
Names == {NameOrder[i] : i \in 1..Len(NameOrder)}
Rank(n) == CHOOSE i \in 1..Len(NameOrder) : NameOrder[i] = n

Range(s) == {s[i] : i \in 1..Len(s)}
NoDup(s) == \A i, j \in 1..Len(s) : s[i] = s[j] => i = j
SeqsUpTo(S, n) == UNION {[1..k -> S] : k \in 0..n}
\* ClassList of the data model: an ordered sequence of unique names.
ClassLists(n) == {s \in SeqsUpTo(Names, n) : NoDup(s)}

\* Python's seq[i] for a 0-based i: negative i counts from the end.
PyInRange(s, i) == -Len(s) <= i /\ i < Len(s)
PyGet(s, i) == IF i >= 0 THEN s[i + 1] ELSE s[Len(s) + i + 1]
\* list.index(x) for an x that is in the list: 0-based first position.
PyIndexOf(s, x) == (CHOOSE i \in 1..Len(s) : s[i] = x /\ \A j \in 1..(i - 1) : s[j] # x) - 1

(***************************************************************************)
(* map_class_names(src_classes, dst_classes), imported by every call site  *)
(* from mpa.modules.utils.task_adapt.  One entry per name of the FIRST     *)
(* list: the 0-based position of that name in the SECOND list, -1 when the *)
(* name is not there.  This is the orientation every call site relies on:  *)
(* AdaptClassLabels indexes the result by a source label, the weight mixer *)
(* enumerates it over the rows of the first list and uses the values as    *)
(* rows of the second, the evaluation wrapper uses the values as indices   *)
(* into the per-class results of the second list.                          *)
(***************************************************************************)
map_class_names(src_classes, dst_classes) ==
    [i \in 1..Len(src_classes) |->
        IF src_classes[i] \in Range(dst_classes)
        THEN PyIndexOf(dst_classes, src_classes[i])
        ELSE -1]

VARIABLES
    site,           \* the entry point this run exercises
    pc,             \* position of the run
    err,            \* "" or the name of the Python exception that ended the call
    cls_a, cls_b,   \* the two class lists handed to the call site (first, second argument)
    src2dst,        \* AdaptClassLabels.src2dst
    data,           \* the sample passed through AdaptClassLabels.__call__
    data2model,     \* TaskAdaptEvalDataset.data2model
    adapt_results,  \* what TaskAdaptEvalDataset.evaluate hands to the wrapped dataset
    seg_map_files,  \* SegIncrVOCDataset: the annotation maps on disk, one pixel sequence per sample
    gt_seg_maps,    \* statistics: the maps as loaded by get_gt_seg_maps and edited in place
    new_class_indices, \* SegIncrVOCDataset.statistics: local new_class_indices
    model2data,     \* SegIncrVOCDataset.statistics: local model2data of each sample
    img_indices,    \* SegIncrVOCDataset.img_indices
    prefix,         \* weight mixer: key prefix of the checkpoint dict
    model_dict,     \* weight mixer: model.state_dict(), name -> tensor id
    chkpt_dict,     \* weight mixer: the checkpoint dict being loaded, name -> tensor id
    model2chkpt,    \* weight mixer: local model2chkpt
    tensors,        \* weight mixer: heap of tensor objects, tensors[id] is the rows of tensor id
    lists,          \* heap of Python list objects: lists[id] is the content of list id
    dicts,          \* heap of Python dict objects: dicts[id][task] is a list id, 0 for no key
    train_cfg,      \* refiners: the train data config, [new_classes, tasks] as object ids
    meta,           \* refiners: the checkpoint metadata, [CLASSES, tasks] as object ids
    adapt_type,     \* task_adapt.op
    ret,            \* refiners: the returned pair(s), as object ids (0: nothing returned)
    training,       \* configure_task: the training argument
    pre_stage_res,  \* configure_task: kwargs.get('pre_stage_res') is given
    cfg,            \* configure_task: the stage configuration being built
    model_meta,     \* configure_task: the metadata read from the checkpoint
    cfg_ret,        \* configure_task: the returned (model_tasks, dst_classes)
    hook,           \* the TaskAdaptHook built from cfg.custom_hooks
    runner,         \* the runner the hook is called with: [data_loader, epoch]
    head,           \* CustomVFNetHead: [num_classes, use_vfl, bg_loss_weight]
    assigned,       \* loss: per point, the ground-truth box it is assigned to (-1: none)
    flatten_labels, \* loss: per point, its target label
    pos_inds,       \* loss: the positive point indices
    loss_out,       \* loss: [num_pos, pos_labels, cls_iou_targets, neg_indices]
    module_state,   \* UnbiasedTeacher: the module's own state dict, <<key, value>> in order
    state_dict,     \* UnbiasedTeacher: the state dict handed out by / in to the hooks
    teacher,        \* UnbiasedTeacher: its settings
    student_head,   \* UnbiasedTeacher: model_s.bbox_head's attributes
    calls           \* UnbiasedTeacher: the forward_train calls made so far

mapVars == <<cls_a, cls_b, src2dst, data, data2model, adapt_results>>
segVars == <<seg_map_files, gt_seg_maps, new_class_indices, model2data, img_indices>>
mixVars == <<prefix, model_dict, chkpt_dict, model2chkpt, tensors>>
refVars == <<lists, dicts, train_cfg, meta, adapt_type, ret>>
taskVars == <<training, pre_stage_res, cfg, model_meta, cfg_ret, hook, runner>>
lossVars == <<head, assigned, flatten_labels, pos_inds, loss_out>>
teachVars == <<module_state, state_dict, teacher, student_head, calls>>
vars == <<site, pc, err, mapVars, segVars, mixVars, refVars, taskVars, lossVars, teachVars>>

(***************************************************************************)
(* AdaptClassLabels (pipeline step of the label remapper).                 *)
(***************************************************************************)
AdaptClassLabels_init_swapped(src_classes, dst_classes) ==
    map_class_names(dst_classes, src_classes)

AdaptClassLabels_init(src_classes, dst_classes) ==
    map_class_names(src_classes, dst_classes)

\* The labels a sample of the source dataset can carry.
SrcLabelLists(src_classes) == SeqsUpTo(0..(Len(src_classes) - 1), MaxBoxes)

NewAdaptClassLabels ==
    /\ site = "labels" /\ pc = "start"
    /\ src2dst' = AdaptClassLabels_init(cls_a, cls_b)
    /\ pc' = "built"
    /\ UNCHANGED <<site, lossVars, teachVars, err, cls_a, cls_b, data, data2model, adapt_results, segVars, mixVars, refVars, taskVars>>

\* the labels left as they were read
dst_labels_unmapped(map, src_labels) == src_labels

\* for src_label in src_labels: dst_labels.append(self.src2dst[src_label])
dst_labels(map, src_labels) ==
    [k \in 1..Len(src_labels) |-> PyGet(map, src_labels[k])]

AdaptClassLabels_call ==
    /\ site = "labels" /\ pc = "built"
    /\ LET src_labels == data.gt_labels
       IN IF \A k \in 1..Len(src_labels) : PyInRange(src2dst, src_labels[k])
          THEN /\ data' = [data EXCEPT !.gt_labels = dst_labels(src2dst, src_labels)]
               /\ err' = ""
          ELSE /\ err' = "IndexError"
               /\ UNCHANGED data
    /\ pc' = "done"
    /\ UNCHANGED <<site, lossVars, teachVars, cls_a, cls_b, src2dst, data2model, adapt_results, segVars, mixVars, refVars, taskVars>>

(***************************************************************************)
(* TaskAdaptEvalDataset (evaluation wrapper).  cls_a plays dataset.CLASSES,*)
(* cls_b plays model_classes; a detection result holds one entry per model *)
(* class, written here as the token <<"det", k>> for model class k.        *)
(***************************************************************************)
\* the two lists handed over the other way round
TaskAdaptEvalDataset_init_swapped(CLASSES, model_classes) ==
    map_class_names(model_classes, CLASSES)

\* self.data2model = map_class_names(self.CLASSES, self.model_classes)
TaskAdaptEvalDataset_init(CLASSES, model_classes) ==
    map_class_names(CLASSES, model_classes)

NewTaskAdaptEvalDataset ==
    /\ site = "eval" /\ pc = "start"
    /\ data2model' = TaskAdaptEvalDataset_init(cls_a, cls_b)
    /\ pc' = "built"
    /\ UNCHANGED <<site, lossVars, teachVars, err, cls_a, cls_b, src2dst, data, adapt_results, segVars, mixVars, refVars, taskVars>>

evaluate ==
    /\ site = "eval" /\ pc = "built"
    /\ LET result == [k \in 1..Len(cls_b) |-> <<"det", k - 1>>]
       IN IF \A i \in 1..Len(data2model) :
                data2model[i] >= 0 => PyInRange(result, data2model[i])
          THEN /\ adapt_results' =
                     <<[i \in 1..Len(data2model) |->
                          IF data2model[i] >= 0
                          THEN PyGet(result, data2model[i])
                          ELSE <<"empty", 0>>]>>
               /\ err' = ""
          ELSE /\ err' = "IndexError"
               /\ UNCHANGED adapt_results
    /\ pc' = "done"
    /\ UNCHANGED <<site, lossVars, teachVars, cls_a, cls_b, src2dst, data, data2model, segVars, mixVars, refVars, taskVars>>

(***************************************************************************)
(* SegIncrVOCDataset.statistics.  cls_a plays new_classes, cls_b plays     *)
(* classes.  A ground-truth map is the sequence of its pixel values.       *)
(***************************************************************************)
IGNORE_LABEL == 255

RECURSIVE SortInts(_)
\* np.unique of a set of values: ascending.
SortInts(S) ==
    IF S = {} THEN <<>>
    ELSE LET m == CHOOSE x \in S : \A y \in S : x <= y
         IN <<m>> \o SortInts(S \ {m})

\* the map left as it was read
NormalizeIgnore_kept(gt_map) == gt_map

\* gt_map[np.where(gt_map == 255)] = 0
NormalizeIgnore(gt_map) ==
    [p \in 1..Len(gt_map) |-> IF gt_map[p] = IGNORE_LABEL THEN 0 ELSE gt_map[p]]

seg_classes(classes) == <<"background">> \o classes

seg_new_class_indices(new_classes, classes) ==
    map_class_names(new_classes, seg_classes(classes))

\* label_schema and model2data of one (normalized) map
seg_label_schema(gt_map, classes) ==
    LET gt == SortInts(Range(gt_map))
    IN [k \in 1..Len(gt) |-> PyGet(seg_classes(classes), gt[k])]

seg_model2data(gt_map, classes) ==
    map_class_names(seg_classes(classes), seg_label_schema(gt_map, classes))

\* any(value is not -1 for value in [model2data[idx] for idx in new_class_indices])
seg_is_new(m2d, nci) ==
    \E k \in 1..Len(nci) : PyGet(m2d, nci[k]) # -1

\* Pixel values a map of a dataset with these classes can hold.
PixelValues(classes) == 0..Len(classes) \cup {IGNORE_LABEL}

RECURSIVE seg_partition(_, _, _, _, _)
\* the loop over idx in range(len(gt_seg_maps)), from sample idx (0-based) on
seg_partition(maps, classes, nci, idx, acc) ==
    IF idx >= Len(maps) THEN acc
    ELSE LET m2d == seg_model2data(maps[idx + 1], classes)
             key == IF seg_is_new(m2d, nci) THEN "new" ELSE "old"
         IN seg_partition(maps, classes, nci, idx + 1,
                          [acc EXCEPT ![key] = Append(@, idx)])

statistics ==
    /\ site = "seg" /\ pc = "start"
    /\ LET classes == cls_b
           maps == [i \in 1..Len(seg_map_files) |-> NormalizeIgnore(seg_map_files[i])]
           nci == seg_new_class_indices(cls_a, classes)
       IN IF \A i \in 1..Len(maps) : \A p \in 1..Len(maps[i]) :
                 PyInRange(seg_classes(classes), maps[i][p])
          THEN /\ gt_seg_maps' = maps
               /\ UNCHANGED seg_map_files
               /\ new_class_indices' = nci
               /\ model2data' = [i \in 1..Len(maps) |-> seg_model2data(maps[i], classes)]
               /\ img_indices' = seg_partition(maps, classes, nci, 0, [old |-> <<>>, new |-> <<>>])
               /\ err' = ""
          ELSE \* classes[i] of line 42 raises; the dataset is not constructed
               /\ err' = "IndexError"
               /\ UNCHANGED segVars
    /\ pc' = "done"
    /\ UNCHANGED <<site, lossVars, teachVars, mapVars, mixVars, refVars, taskVars>>

(***************************************************************************)
(* CustomSingleStageDetector.load_state_dict_pre_hook (weight mixer).      *)
(* cls_a plays model_classes, cls_b plays chkpt_classes.  A parameter is   *)
(* the sequence of its rows (dimension 0); a row is an opaque token.       *)
(***************************************************************************)
BG == "__BG__"
MAX_LEVELS == 10
LevelStr == <<"0", "1", "2", "3", "4", "5", "6", "7", "8", "9", "10">>
HEAD == "bbox_head.cls_convs."

\* 'bbox_head.cls_convs.{}<suffix>'.format(level)
FormatName(suffix, level) == HEAD \o LevelStr[level + 1] \o suffix

NORMAL_NAMES == <<".weight", ".bias">>
DW_NAMES == <<".3.weight", ".3.bias">>

\* the background sentinel is appended to the model's list only
det_model2chkpt_no_src_bg(model_classes, chkpt_classes) ==
    map_class_names(model_classes \o <<BG>>, chkpt_classes)

\* model2chkpt = map_class_names(model_classes, chkpt_classes), '__BG__' appended to both
det_model2chkpt(model_classes, chkpt_classes) ==
    map_class_names(model_classes \o <<BG>>, chkpt_classes \o <<BG>>)

det_param_names(cdict, pfx) ==
    IF (pfx \o FormatName(".weight", 0)) \in DOMAIN cdict THEN NORMAL_NAMES
    ELSE IF (pfx \o FormatName(".0.weight", 0)) \in DOMAIN cdict THEN DW_NAMES
    ELSE <<>>

Min(x, y) == IF x <= y THEN x ELSE y

(***************************************************************************)
(* The mixed parameter: the model's rows (a clone), with row               *)
(* anchor_idx * num_model_classes + m overwritten by checkpoint row        *)
(* anchor_idx * num_chkpt_classes + c for every anchor_idx below           *)
(* num_anchors and every (m, c) of enumerate(model2chkpt) with c >= 0.     *)
(* The loops write each such row once, so the result is given row by row.  *)
(***************************************************************************)
\* rows without a counterpart are cleared instead of kept
mix_param_zeroed(model_param, chkpt_param, m2c, num_model_classes, num_chkpt_classes) ==
    LET num_chkpt_anchors == Len(chkpt_param) \div num_chkpt_classes
        num_model_anchors == Len(model_param) \div num_model_classes
        num_anchors == Min(num_chkpt_anchors, num_model_anchors)
    IN [r \in 1..Len(model_param) |->
          LET anchor_idx == (r - 1) \div num_model_classes
              m == (r - 1) % num_model_classes
              c == m2c[m + 1]
          IN IF anchor_idx < num_anchors /\ c >= 0
             THEN chkpt_param[anchor_idx * num_chkpt_classes + c + 1]
             ELSE IF anchor_idx < num_anchors THEN <<"zero", "", 0>>
             ELSE model_param[r]]

\* only the first anchor group is mixed
mix_param_one_anchor(model_param, chkpt_param, m2c, num_model_classes, num_chkpt_classes) ==
    LET num_chkpt_anchors == Len(chkpt_param) \div num_chkpt_classes
        num_model_anchors == Len(model_param) \div num_model_classes
        num_anchors == Min(1, Min(num_chkpt_anchors, num_model_anchors))
    IN [r \in 1..Len(model_param) |->
          LET anchor_idx == (r - 1) \div num_model_classes
              m == (r - 1) % num_model_classes
              c == m2c[m + 1]
          IN IF anchor_idx < num_anchors /\ c >= 0
             THEN chkpt_param[anchor_idx * num_chkpt_classes + c + 1]
             ELSE model_param[r]]

mix_param(model_param, chkpt_param, m2c, num_model_classes, num_chkpt_classes) ==
    LET num_chkpt_anchors == Len(chkpt_param) \div num_chkpt_classes
        num_model_anchors == Len(model_param) \div num_model_classes
        num_anchors == Min(num_chkpt_anchors, num_model_anchors)
    IN [r \in 1..Len(model_param) |->
          LET anchor_idx == (r - 1) \div num_model_classes
              m == (r - 1) % num_model_classes
              c == m2c[m + 1]
          IN IF anchor_idx < num_anchors /\ c >= 0
             THEN chkpt_param[anchor_idx * num_chkpt_classes + c + 1]
             ELSE model_param[r]]

\* model_param = model_dict[model_name], without the clone
clone_aliased(ts, id) == [tensors |-> ts, id |-> id]

\* model_dict[model_name].clone(): a new tensor object with the same rows
clone(ts, id) == [tensors |-> Append(ts, ts[id]), id |-> Len(ts) + 1]

\* a name that is not on both sides is looked up all the same
missing_param_raises == "KeyError"

\* logger.info(f'Skipping weight copy: {chkpt_name}'); break: nothing is raised
missing_param == ""

RECURSIVE mix_names(_, _, _, _, _, _, _, _, _, _, _)
\* the loop over param_names at one level, from the k-th name on; ts is the
\* tensor heap, mdict and cdict map names to tensor ids
mix_names(level, k, param_names, ts, mdict, cdict, pfx, m2c, nmc, ncc, level_found) ==
    IF k > Len(param_names)
    THEN [tensors |-> ts, dict |-> cdict, found |-> level_found, err |-> ""]
    ELSE LET model_name == FormatName(param_names[k], level)
             chkpt_name == pfx \o model_name
         IN IF model_name \notin DOMAIN mdict \/ chkpt_name \notin DOMAIN cdict
            THEN [tensors |-> ts, dict |-> cdict, found |-> level_found, err |-> missing_param]
            ELSE LET cl == clone(ts, mdict[model_name])
                     model_param == cl.id
                     chkpt_param == cdict[chkpt_name]
                     mixed == [cl.tensors EXCEPT ![model_param] =
                                  mix_param(cl.tensors[model_param], cl.tensors[chkpt_param],
                                            m2c, nmc, ncc)]
                 IN mix_names(level, k + 1, param_names, mixed, mdict,
                              [cdict EXCEPT ![chkpt_name] = model_param],
                              pfx, m2c, nmc, ncc, TRUE)

\* the level loop goes one level further
level_range_unbounded == MAX_LEVELS + 1

\* for level in range(10)
level_range == MAX_LEVELS

RECURSIVE mix_levels(_, _, _, _, _, _, _, _, _)
\* the loop over level in range(10), from `level` on
mix_levels(level, param_names, ts, mdict, cdict, pfx, m2c, nmc, ncc) ==
    IF level >= level_range THEN [tensors |-> ts, dict |-> cdict, err |-> ""]
    ELSE LET r == mix_names(level, 1, param_names, ts, mdict, cdict, pfx, m2c, nmc, ncc, FALSE)
         IN IF r.err # "" \/ ~r.found
            THEN [tensors |-> r.tensors, dict |-> r.dict, err |-> r.err]
            ELSE mix_levels(level + 1, param_names, r.tensors, mdict, r.dict, pfx, m2c, nmc, ncc)

load_state_dict_pre_hook ==
    /\ site = "mixer" /\ pc = "start"
    /\ LET m2c == det_model2chkpt(cls_a, cls_b)
           num_chkpt_classes == Len(cls_b) + 1
           num_model_classes == Len(cls_a) + 1
           r == mix_levels(0, det_param_names(chkpt_dict, prefix), tensors, model_dict,
                           chkpt_dict, prefix, m2c, num_model_classes, num_chkpt_classes)
       IN /\ model2chkpt' = m2c
          /\ tensors' = r.tensors
          /\ chkpt_dict' = r.dict
          /\ err' = r.err
    /\ pc' = "done"
    /\ UNCHANGED <<site, lossVars, teachVars, mapVars, segVars, prefix, model_dict, refVars, taskVars>>

(***************************************************************************)
(* State dicts of a detector head: `levels` classification convs, plain    *)
(* ("normal": cls_convs.L is the conv) or depth-separable ("dw":           *)
(* cls_convs.L is conv(0) -> bn(1) -> act(2) -> conv(3)), with `anchors`   *)
(* row groups of `ncls` rows each, plus one parameter outside the head.    *)
(***************************************************************************)
Tensor(tag, name, n) == [r \in 1..n |-> <<tag, name, r - 1>>]

HeadNames(layout, levels, bias) ==
    LET sfx == IF layout = "normal"
               THEN {".weight"} \cup (IF bias THEN {".bias"} ELSE {})
               ELSE IF layout = "dw"
               THEN {".0.weight", ".3.weight"} \cup (IF bias THEN {".3.bias"} ELSE {})
               ELSE {".conv.weight"} \cup (IF bias THEN {".conv.bias"} ELSE {})
    IN {FormatName(s, l) : s \in sfx, l \in 0..(levels - 1)}

StateDict(tag, pfx, layout, levels, bias, anchors, ncls) ==
    LET names == HeadNames(layout, levels, bias) \cup {"backbone.conv.weight"}
    IN [k \in {pfx \o n : n \in names} |->
          IF k \in {pfx \o FormatName(s, l) :
                       s \in {".weight", ".bias", ".3.weight", ".3.bias",
                              ".conv.weight", ".conv.bias"},
                       l \in 0..(levels - 1)}
          THEN Tensor(tag, k, anchors * ncls)
          ELSE Tensor(tag, k, 1)]

RECURSIVE alloc_tensors(_, _, _, _)
\* the tensor objects of a state dict sd (name -> rows), put on the heap ts
alloc_tensors(ts, sd, names, acc) ==
    IF names = {} THEN [tensors |-> ts, dict |-> acc]
    ELSE LET n == CHOOSE x \in names : TRUE
         IN alloc_tensors(Append(ts, sd[n]), sd, names \ {n}, acc @@ (n :> (Len(ts) + 1)))

\* the model's and the checkpoint's state dicts as objects
MixerInput(msd, csd) ==
    LET m == alloc_tensors(<<>>, msd, DOMAIN msd, <<>>)
        c == alloc_tensors(m.tensors, csd, DOMAIN csd, <<>>)
    IN [tensors |-> c.tensors, model_dict |-> m.dict, chkpt_dict |-> c.dict]

(***************************************************************************)
(* The mapping call sites, one entry point per run.                        *)
(***************************************************************************)
MaxImages == 1     \* most samples of the segmentation dataset
MaxPixels == 2     \* most pixels of one ground-truth map
MaxAnchors == 2    \* most anchor groups of a head parameter

IdleLabels == data = [gt_labels |-> <<>>, img |-> "img0"]
IdleSeg == seg_map_files = <<>> /\ gt_seg_maps = <<>>
IdleMix == prefix = "" /\ model_dict = <<>> /\ chkpt_dict = <<>> /\ tensors = <<>>
NoRet == [dst_classes |-> 0, old_classes |-> 0, model_tasks |-> 0, old_tasks |-> 0]
IdleRefine ==
    /\ lists = <<>> /\ dicts = <<>>
    /\ train_cfg = [new_classes |-> 0, tasks |-> 0]
    /\ meta = [CLASSES |-> 0, tasks |-> 0]
    /\ adapt_type = "REPLACE"
    /\ ret = NoRet

IdleTask ==
    /\ training = FALSE /\ pre_stage_res = FALSE
    /\ cfg = <<>> /\ model_meta = <<>> /\ cfg_ret = <<>> /\ hook = <<>> /\ runner = <<>>

IdleLoss ==
    /\ head = <<>> /\ assigned = <<>> /\ flatten_labels = <<>>
    /\ pos_inds = <<>> /\ loss_out = <<>>

IdleTeach ==
    /\ module_state = <<>> /\ state_dict = <<>>
    /\ teacher = <<>> /\ student_head = <<>> /\ calls = <<>>

InitMap ==
    /\ site \in {"labels", "eval", "seg", "mixer"}
    /\ pc = "start"
    /\ err = ""
    /\ cls_a \in ClassLists(MaxLen)
    /\ cls_b \in ClassLists(MaxLen)
    /\ src2dst = <<>> /\ data2model = <<>> /\ adapt_results = <<>>
    /\ new_class_indices = <<>> /\ model2data = <<>>
    /\ img_indices = [old |-> <<>>, new |-> <<>>]
    /\ model2chkpt = <<>>
    /\ IF site = "labels"
       THEN \E labels \in SrcLabelLists(cls_a) : data = [gt_labels |-> labels, img |-> "img0"]
       ELSE IdleLabels
    /\ IF site = "seg"
       THEN /\ seg_map_files \in SeqsUpTo(SeqsUpTo(PixelValues(cls_b), MaxPixels) \ {<<>>}, MaxImages)
            /\ gt_seg_maps = <<>>
       ELSE IdleSeg
    /\ IF site = "mixer"
       THEN \E layout \in {"normal", "dw"}, ca, ma \in 1..MaxAnchors :
               LET inp == MixerInput(StateDict("init", "", layout, 1, TRUE, ma, Len(cls_a) + 1),
                                     StateDict("ckpt", "", layout, 1, TRUE, ca, Len(cls_b) + 1))
               IN /\ prefix = ""
                  /\ tensors = inp.tensors
                  /\ model_dict = inp.model_dict
                  /\ chkpt_dict = inp.chkpt_dict
       ELSE IdleMix
    /\ IdleRefine
    /\ IdleTask
    /\ IdleLoss
    /\ IdleTeach

NextMap ==
    \/ NewAdaptClassLabels
    \/ AdaptClassLabels_call
    \/ NewTaskAdaptEvalDataset
    \/ evaluate
    \/ statistics
    \/ load_state_dict_pre_hook

SpecMap == InitMap /\ [][NextMap]_vars

(***************************************************************************)
(* Properties of the class-name mapping at its call sites.                 *)
(***************************************************************************)
\* M maps every position of `first` to the position of the same name in `second`.
NameMapOf(M, first, second) ==
    \A i \in 1..Len(first) :
        /\ i \in DOMAIN M
        /\ (M[i] = -1) <=> (first[i] \notin Range(second))
        /\ M[i] # -1 => /\ M[i] \in 0..(Len(second) - 1)
                        /\ second[M[i] + 1] = first[i]

\* M has one entry per position of `indexed`, each -1 or an index into `target`.
MapShape(M, indexed, target) ==
    /\ Len(M) = Len(indexed)
    /\ \A i \in 1..Len(M) : M[i] = -1 \/ M[i] \in 0..(Len(target) - 1)

MaxClsLen == 3     \* longest class list given to refine_cls
MaxTaskLen == 2    \* longest class list of one task given to refine_tasks

TaskOrder == <<"t1", "t2">>
TaskNames == {TaskOrder[i] : i \in 1..Len(TaskOrder)}
AdaptOps == {"REPLACE", "MERGE", "merge"}

\* [c for c in cls if c not in present]
NotIn(cls, present) == SelectSeq(cls, LAMBDA c : c \notin Range(present))

\* old + [cls for cls in new_classes if cls not in old_classes], without the filter
merge_classes_unfiltered(old_classes, new_classes) == old_classes \o new_classes

merge_classes(old_classes, new_classes) == old_classes \o NotIn(new_classes, old_classes)

\* new_classes.copy(), aliased to the other input
replace_classes_old(old_classes, new_classes) == old_classes

replace_classes(old_classes, new_classes) == new_classes

\* The exception raised for an unsupported adapt_type, and the silent fall-through
unsupported_op_ignored == ""

unsupported_op == "KeyError"

\* The exception raised by REPLACE for an empty new_classes, and the silent fall-through
empty_new_classes_ignored == ""

empty_new_classes == "ValueError"

\* refine_cls on the contents of train_cfg['new_classes'] and meta['CLASSES']:
\* the exception raised ("" for none) and the destination list built.
refine_cls_result(new_classes, old_classes, op) ==
    IF op = "REPLACE"
    THEN IF Len(new_classes) = 0
         THEN [err |-> empty_new_classes, dst_classes |-> replace_classes(old_classes, new_classes)]
         ELSE [err |-> "", dst_classes |-> replace_classes(old_classes, new_classes)]
    ELSE IF op = "MERGE"
    THEN [err |-> "", dst_classes |-> merge_classes(old_classes, new_classes)]
    ELSE [err |-> unsupported_op, dst_classes |-> <<>>]

refine_cls ==
    /\ site = "refine_cls" /\ pc = "start"
    /\ pc' = "done"
    /\ IF train_cfg.new_classes = 0 \/ meta.CLASSES = 0
       THEN \* train_cfg['new_classes'] or meta['CLASSES'] is missing
            /\ err' = "KeyError"
            /\ UNCHANGED <<lists, ret>>
       ELSE LET r == refine_cls_result(lists[train_cfg.new_classes], lists[meta.CLASSES],
                                       adapt_type)
            IN IF r.err # ""
               THEN /\ err' = r.err
                    /\ UNCHANGED <<lists, ret>>
               ELSE /\ err' = ""
                    /\ lists' = Append(lists, r.dst_classes)
                    /\ ret' = [NoRet EXCEPT !.dst_classes = Len(lists) + 1,
                                            !.old_classes = meta.CLASSES]
    /\ UNCHANGED <<site, lossVars, teachVars, mapVars, segVars, mixVars, dicts, train_cfg, meta, adapt_type, taskVars>>

\* A dict with no key.
EmptyDict == [t \in TaskNames |-> 0]
Keys(d) == {t \in TaskNames : d[t] # 0}

RECURSIVE deepcopy_entries(_, _, _, _)
\* the entries of copy.deepcopy(d): a new list object per key, from the k-th task on
deepcopy_entries(ls, d, k, acc) ==
    IF k > Len(TaskOrder) THEN [lists |-> ls, dict |-> acc]
    ELSE LET t == TaskOrder[k]
         IN IF d[t] = 0
            THEN deepcopy_entries(ls, d, k + 1, acc)
            ELSE deepcopy_entries(Append(ls, ls[d[t]]), d, k + 1,
                                  [acc EXCEPT ![t] = Len(ls) + 1])

\* model_tasks = old_tasks, without the copy
deepcopy_aliased(ls, ds, d) == [lists |-> ls, dicts |-> ds, id |-> d]

\* copy.deepcopy(old_tasks): a new dict object holding new list objects
deepcopy(ls, ds, d) ==
    LET r == deepcopy_entries(ls, ds[d], 1, EmptyDict)
    IN [lists |-> r.lists, dicts |-> Append(ds, r.dict), id |-> Len(ds) + 1]

RECURSIVE merge_tasks(_, _, _, _, _)
\* for task, cls in new_tasks.items(): ..., from the k-th task on; mt and nt
\* are the ids of model_tasks and new_tasks
merge_tasks(ls, ds, mt, nt, k) ==
    IF k > Len(TaskOrder) THEN [lists |-> ls, dicts |-> ds]
    ELSE LET task == TaskOrder[k]
             cls == ds[nt][task]
             cur == ds[mt][task]
         IN IF cls = 0
            THEN merge_tasks(ls, ds, mt, nt, k + 1)
            ELSE IF cur # 0 /\ Len(ls[cur]) > 0
            THEN \* model_tasks[task] = model_tasks[task] + [c for c in cls if c not in ...]
                 merge_tasks(Append(ls, merge_classes(ls[cur], ls[cls])),
                             [ds EXCEPT ![mt][task] = Len(ls) + 1], mt, nt, k + 1)
            ELSE \* model_tasks.update({task: cls})
                 merge_tasks(ls, [ds EXCEPT ![mt][task] = cls], mt, nt, k + 1)

\* REPLACE: model_tasks = new_tasks, taken from the checkpoint instead
replace_tasks_old(new_tasks, old_tasks) == IF old_tasks # 0 THEN old_tasks ELSE new_tasks

\* REPLACE: model_tasks = new_tasks (the same dict object)
replace_tasks(new_tasks, old_tasks) == new_tasks

\* refine_tasks on the heap (ls, ds), nt and ot being the ids of
\* train_cfg['tasks'] and meta['tasks'] (0: no such key): the exception raised
\* ("" for none), the heap afterwards and the ids of the returned dicts.
refine_tasks_result(ls, ds, nt, ot, op) ==
    LET failed(e) == [err |-> e, lists |-> ls, dicts |-> ds, model_tasks |-> 0, old_tasks |-> 0]
    IN IF nt = 0 THEN failed("KeyError")
       ELSE IF op = "REPLACE"
       THEN \* old_tasks = {}; model_tasks = new_tasks
            [err |-> "", lists |-> ls, dicts |-> Append(ds, EmptyDict),
             model_tasks |-> replace_tasks(nt, ot), old_tasks |-> Len(ds) + 1]
       ELSE IF op = "MERGE"
       THEN IF ot = 0 THEN failed("KeyError")
            ELSE LET cp == deepcopy(ls, ds, ot)
                     r == merge_tasks(cp.lists, cp.dicts, cp.id, nt, 1)
                 IN [err |-> "", lists |-> r.lists, dicts |-> r.dicts,
                     model_tasks |-> cp.id, old_tasks |-> ot]
       ELSE failed(unsupported_op)

refine_tasks ==
    /\ site = "refine_tasks" /\ pc = "start"
    /\ pc' = "done"
    /\ LET r == refine_tasks_result(lists, dicts, train_cfg.tasks, meta.tasks, adapt_type)
       IN /\ err' = r.err
          /\ lists' = r.lists
          /\ dicts' = r.dicts
          /\ ret' = IF r.err # "" THEN ret
                    ELSE [NoRet EXCEPT !.model_tasks = r.model_tasks, !.old_tasks = r.old_tasks]
    /\ UNCHANGED <<site, lossVars, teachVars, mapVars, segVars, mixVars, train_cfg, meta, adapt_type, taskVars>>

(***************************************************************************)
(* The refiners' inputs: a train data config and a checkpoint metadata     *)
(* holding class lists (refine_cls) or task sets (refine_tasks).           *)
(***************************************************************************)
\* Stands for "no such key" where a class list is expected.
ABSENT == <<"<absent>">>

\* A task set by value: task -> class list, ABSENT for a task that is no key.
TaskSetVals == [TaskNames -> ClassLists(MaxTaskLen) \cup {ABSENT}]
MISSING == [t \in TaskNames |-> <<"<missing>">>]

RECURSIVE alloc_entries(_, _, _, _)
alloc_entries(ls, tv, k, acc) ==
    IF k > Len(TaskOrder) THEN [lists |-> ls, dict |-> acc]
    ELSE LET t == TaskOrder[k]
         IN IF tv[t] = ABSENT
            THEN alloc_entries(ls, tv, k + 1, acc)
            ELSE alloc_entries(Append(ls, tv[t]), tv, k + 1, [acc EXCEPT ![t] = Len(ls) + 1])

\* The heap after building the dict of value tv (nothing for MISSING).
alloc_dict(ls, ds, tv) ==
    IF tv = MISSING THEN [lists |-> ls, dicts |-> ds, id |-> 0]
    ELSE LET r == alloc_entries(ls, tv, 1, EmptyDict)
         IN [lists |-> r.lists, dicts |-> Append(ds, r.dict), id |-> Len(ds) + 1]

alloc_list(ls, v) ==
    IF v = ABSENT THEN [lists |-> ls, id |-> 0]
    ELSE [lists |-> Append(ls, v), id |-> Len(ls) + 1]

\* The content of a dict object: task -> class list, ABSENT for no key.
TaskSetOf(ls, d) == [t \in TaskNames |-> IF d[t] = 0 THEN ABSENT ELSE ls[d[t]]]

IdleMap ==
    /\ cls_a = <<>> /\ cls_b = <<>>
    /\ src2dst = <<>> /\ data2model = <<>> /\ adapt_results = <<>>
    /\ new_class_indices = <<>> /\ model2data = <<>>
    /\ img_indices = [old |-> <<>>, new |-> <<>>]
    /\ model2chkpt = <<>>
    /\ IdleLabels /\ IdleSeg /\ IdleMix

InitRefine ==
    /\ site \in {"refine_cls", "refine_tasks"}
    /\ pc = "start"
    /\ err = ""
    /\ IdleMap
    /\ IdleTask
    /\ IdleLoss
    /\ IdleTeach
    /\ adapt_type \in AdaptOps
    /\ ret = NoRet
    /\ IF site = "refine_cls"
       THEN \E new \in ClassLists(MaxClsLen) \cup {ABSENT},
               old \in ClassLists(MaxClsLen) \cup {ABSENT} :
               LET n == alloc_list(<<>>, new)
                   o == alloc_list(n.lists, old)
               IN /\ lists = o.lists
                  /\ dicts = <<>>
                  /\ train_cfg = [new_classes |-> n.id, tasks |-> 0]
                  /\ meta = [CLASSES |-> o.id, tasks |-> 0]
       ELSE \E new \in TaskSetVals \cup {MISSING}, old \in TaskSetVals \cup {MISSING} :
               LET n == alloc_dict(<<>>, <<>>, new)
                   o == alloc_dict(n.lists, n.dicts, old)
               IN /\ lists = o.lists
                  /\ dicts = o.dicts
                  /\ train_cfg = [new_classes |-> 0, tasks |-> n.id]
                  /\ meta = [CLASSES |-> 0, tasks |-> o.id]

NextRefine ==
    \/ refine_cls
    \/ refine_tasks

SpecRefine == InitRefine /\ [][NextRefine]_vars

(***************************************************************************)
(* ClsStage.configure_task.  The configuration is a record; a class list   *)
(* that is no key (or None) is ABSENT, a task set that is no key (or None) *)
(* is MISSING.  Stage.get_model_classes(cfg) and Stage.get_data_classes    *)
(* (cfg) are read from the fields model_classes and data_classes.          *)
(***************************************************************************)
CLASS_INC_DATASET == {"MPAClsDataset", "ClsDirDataset", "ClsTVDataset"}
PSEUDO_LABEL_ENABLE_DATASET == {"ClassIncDataset", "LwfTaskIncDataset", "ClsTVDataset"}
WEIGHT_MIX_CLASSIFIER == {"SAMImageClassifier"}

\* Python truth of a list / dict read with .get(key, False)
ListTruthy(l) == l # ABSENT /\ Len(l) > 0
TaskTruthy(tv) == tv # MISSING /\ \E t \in TaskNames : tv[t] # ABSENT

RECURSIVE SortNames(_)
\* the names of a set in ascending (code-point) order
SortNames(S) ==
    IF S = {} THEN <<>>
    ELSE LET m == CHOOSE x \in S : \A y \in S : Rank(x) <= Rank(y)
         IN <<m>> \o SortNames(S \ {m})

\* the difference as a list comprehension, in the order of ar1
np_setdiff1d_unsorted(ar1, ar2) == SelectSeq(ar1, LAMBDA x : x \notin Range(ar2))

\* np.setdiff1d(ar1, ar2).tolist(): the unique values of ar1 that are not in
\* ar2, sorted
np_setdiff1d(ar1, ar2) == SortNames(Range(ar1) \ Range(ar2))

\* sampler_flag, always on
sampler_flag_always(new_classes) == TRUE

\* sampler_flag = True if len(train_data_cfg.new_classes) > 0 else False
sampler_flag_of(new_classes) == Len(new_classes) > 0

\* refine_tasks on task sets given by value
refine_tasks_value(new_tasks, old_tasks, op) ==
    LET n == alloc_dict(<<>>, <<>>, new_tasks)
        o == alloc_dict(n.lists, n.dicts, old_tasks)
        r == refine_tasks_result(o.lists, o.dicts, n.id, o.id, op)
    IN [err |-> r.err,
        model_tasks |-> IF r.err = "" THEN TaskSetOf(r.lists, r.dicts[r.model_tasks]) ELSE MISSING,
        old_tasks |-> IF r.err = "" THEN TaskSetOf(r.lists, r.dicts[r.old_tasks]) ELSE MISSING]

NoHookCfg == [registered |-> FALSE, src_classes |-> ABSENT, dst_classes |-> ABSENT,
              model_type |-> "", sampler_flag |-> FALSE, efficient_mode |-> FALSE]
NoCfgRet == [returned |-> FALSE, model_tasks |-> MISSING, dst_classes |-> ABSENT]

\* The locals of configure_task that later lines read; has_old_* tell whether
\* old_tasks / old_classes were ever assigned.
NoLocals == [model_tasks |-> MISSING, dst_classes |-> ABSENT,
             old_tasks |-> MISSING, has_old_tasks |-> FALSE,
             old_classes |-> ABSENT, has_old_classes |-> FALSE]

ct_raise(c, m, e) == [cfg |-> c, meta |-> m, ret |-> NoCfgRet, err |-> e]

\* lines 228-245: pseudo label augmentation, then the return
ct_pseudo(c, m, loc, pre) ==
    IF ~pre
    THEN [cfg |-> c, meta |-> m, err |-> "",
          ret |-> [returned |-> TRUE, model_tasks |-> loc.model_tasks,
                   dst_classes |-> loc.dst_classes]]
    ELSE IF c.train.type \notin PSEUDO_LABEL_ENABLE_DATASET
    THEN ct_raise(c, m, "NotImplementedError")
    ELSE LET c1 == [c EXCEPT !.train.pre_stage_res = TRUE]
         IN IF TaskTruthy(c1.train.tasks)
            THEN LET c2 == [c1 EXCEPT !.train.model_tasks = loc.model_tasks]
                 IN IF ~loc.has_old_tasks
                    THEN ct_raise(c2, m, "UnboundLocalError")
                    ELSE [cfg |-> [c2 EXCEPT !.model.head.old_tasks = loc.old_tasks],
                          meta |-> m, err |-> "",
                          ret |-> [returned |-> TRUE, model_tasks |-> loc.model_tasks,
                                   dst_classes |-> loc.dst_classes]]
            ELSE \* train_data_cfg has no 'CLASSES' key
                 [cfg |-> c1, meta |-> m, err |-> "",
                  ret |-> [returned |-> TRUE, model_tasks |-> loc.model_tasks,
                           dst_classes |-> loc.dst_classes]]

\* the hook config with the two class lists the other way round
TaskAdaptHookCfg_swapped(old_classes, dst_classes, model_type, sampler_flag, efficient_mode) ==
    [registered |-> TRUE, src_classes |-> dst_classes, dst_classes |-> old_classes,
     model_type |-> model_type, sampler_flag |-> sampler_flag, efficient_mode |-> efficient_mode]

\* lines 205-212: ConfigDict(type='TaskAdaptHook', src_classes=old_classes, ...)
TaskAdaptHookCfg(old_classes, dst_classes, model_type, sampler_flag, efficient_mode) ==
    [registered |-> TRUE, src_classes |-> old_classes, dst_classes |-> dst_classes,
     model_type |-> model_type, sampler_flag |-> sampler_flag, efficient_mode |-> efficient_mode]

\* every dataset type let through
dataset_supported_any(type) == TRUE

\* train_data_cfg.type in CLASS_INC_DATASET
dataset_supported(type) == type \in CLASS_INC_DATASET

\* lines 177-213: the 'mpa' adaptation of the training branch
ct_mpa(c, m, loc, pre) ==
    IF c.task_adapt.type # "mpa" THEN ct_pseudo(c, m, loc, pre)
    ELSE IF ~dataset_supported(c.train.type)
    THEN ct_raise(c, m, "NotImplementedError")
    ELSE LET c1 == IF c.model.type \in WEIGHT_MIX_CLASSIFIER
                   THEN [c EXCEPT !.model.task_adapt =
                            [set |-> TRUE, src_classes |-> c.model_classes,
                             dst_classes |-> c.data_classes]]
                   ELSE c
         IN IF ~loc.has_old_classes
            THEN \* old_classes was never assigned (task mode)
                 ct_raise(c1, m, "UnboundLocalError")
            ELSE LET delta == np_setdiff1d(loc.dst_classes, loc.old_classes)
                     gamma == IF c.task_adapt.efficient_mode THEN 2 ELSE 3
                     task_adapt_hook ==
                         TaskAdaptHookCfg(loc.old_classes, loc.dst_classes, c.model.type,
                                          sampler_flag_of(delta), c.task_adapt.efficient_mode)
                     c2 == [c1 EXCEPT !.train.new_classes = delta,
                                      !.train.classes = loc.dst_classes,
                                      !.model.head.num_classes = Len(loc.dst_classes),
                                      !.model.head.loss = [type |-> "SoftmaxFocalLoss", gamma |-> gamma],
                                      !.custom_hooks = task_adapt_hook]
                 IN ct_pseudo(c2, m, loc, pre)

\* lines 152-175: the training branch up to the refiners
ct_train(c, m, pre) ==
    IF TaskTruthy(c.train.tasks)
    THEN IF ~TaskTruthy(m.tasks) THEN ct_raise(c, m, "KeyError")
         ELSE LET r == refine_tasks_value(c.train.tasks, m.tasks, c.task_adapt.op)
              IN IF r.err # "" THEN ct_raise(c, m, r.err)
                 ELSE ct_mpa([c EXCEPT !.model.head.old_tasks = r.old_tasks,
                                       !.model.head.tasks = IF @ = MISSING THEN c.train.tasks ELSE @],
                             m,
                             [NoLocals EXCEPT !.model_tasks = r.model_tasks,
                                              !.old_tasks = r.old_tasks,
                                              !.has_old_tasks = TRUE],
                             pre)
    ELSE \* 'new_classes' in train_data_cfg: the key is always there after line 150
         IF ~ListTruthy(m.CLASSES) THEN ct_raise(c, m, "KeyError")
         ELSE LET r == refine_cls_result(c.train.new_classes, m.CLASSES, c.task_adapt.op)
              IN IF r.err # "" THEN ct_raise(c, m, r.err)
                 ELSE ct_mpa(c, m,
                             [NoLocals EXCEPT !.dst_classes = r.dst_classes,
                                              !.old_classes = m.CLASSES,
                                              !.has_old_classes = TRUE],
                             pre)

\* lines 215-226: the evaluation branch
ct_eval(c, m, pre) ==
    IF TaskTruthy(c.train.tasks)
    THEN IF ~TaskTruthy(m.tasks) THEN ct_raise(c, m, "KeyError")
         ELSE ct_pseudo([c EXCEPT !.model.head.tasks = m.tasks], m, NoLocals, pre)
    ELSE IF ListTruthy(c.train.new_classes)
    THEN IF ~ListTruthy(m.CLASSES) THEN ct_raise(c, m, "KeyError")
         ELSE LET r == refine_cls_result(c.train.new_classes, m.CLASSES, c.task_adapt.op)
              IN IF r.err # "" THEN ct_raise(c, m, r.err)
                 ELSE ct_pseudo([c EXCEPT !.model.head.num_classes = Len(r.dst_classes)], m,
                                [NoLocals EXCEPT !.dst_classes = r.dst_classes], pre)
    ELSE ct_pseudo(c, m, NoLocals, pre)

\* the model's classes only, no fall-back on the data classes
known_classes_model_only(model_classes, data_classes) ==
    IF Len(model_classes) > 0 THEN model_classes ELSE ABSENT

\* lines 141-146: the class list written to model_meta['CLASSES'], if any
known_classes(model_classes, data_classes) ==
    IF Len(model_classes) > 0 THEN model_classes
    ELSE IF Len(data_classes) > 0 THEN data_classes
    ELSE ABSENT

\* configure_task(cfg, training, model_meta, pre_stage_res=...)
configure_task_result(c, m, trn, pre) ==
    LET model_classes == c.model_classes
        data_classes == c.data_classes
        known == known_classes(model_classes, data_classes)
        m1 == IF known # ABSENT THEN [m EXCEPT !.CLASSES = known] ELSE m
        \* lines 148-150
        new_classes == IF ListTruthy(c.train.new_classes) THEN c.train.new_classes
                       ELSE np_setdiff1d(data_classes, model_classes)
        c1 == [c EXCEPT !.model.head.num_classes = IF known # ABSENT THEN Len(known) ELSE @,
                        !.train.new_classes = new_classes]
    IN IF trn THEN ct_train(c1, m1, pre) ELSE ct_eval(c1, m1, pre)

configure_task ==
    /\ site = "configure" /\ pc = "start"
    /\ LET r == configure_task_result(cfg, model_meta, training, pre_stage_res)
       IN /\ cfg' = r.cfg
          /\ model_meta' = r.meta
          /\ cfg_ret' = r.ret
          /\ err' = r.err
    /\ pc' = "configured"
    /\ UNCHANGED <<site, lossVars, teachVars, mapVars, segVars, mixVars, refVars, training, pre_stage_res, hook, runner>>

(***************************************************************************)
(* TaskAdaptHook and the runner that calls it once per epoch.              *)
(***************************************************************************)
MaxCfgLen == 2
MaxBatch == 2
MaxEpochs == 2

MaxWrappers == 2   \* most dataset wrappers around the training dataset
MaxSamples == 2    \* most samples of the training dataset

\* The training dataset inside `wrappers` dataset wrappers, each of which has
\* a .dataset and repeats what it wraps twice: layers[1] is the length of the
\* outermost object, the last entry the length of the dataset itself.
RECURSIVE Layers(_, _)
Layers(wrappers, n) == IF wrappers = 0 THEN <<n>> ELSE <<2 * Head(Layers(wrappers - 1, n))>> \o Layers(wrappers - 1, n)

Dataset(layers) == [name |-> "train", layers |-> layers]

\* hasattr(dataset, 'dataset') and dataset.dataset
has_dataset(dataset) == Len(dataset.layers) > 1
inner_dataset(dataset) == Dataset(Tail(dataset.layers))
dataset_len(dataset) == Head(dataset.layers)

\* ClsIncrSampler(dataset, batch_size, efficient_mode=...)
ClsIncrSampler(dataset, batch_size, efficient_mode) ==
    [type |-> "ClsIncrSampler", dataset |-> dataset, batch_size |-> batch_size,
     efficient_mode |-> efficient_mode]

\* DataLoader(...); id tells the loader objects apart
DataLoader(id, dataset, batch_size, sampler, num_workers, collate_fn, pin_memory, worker_init_fn) ==
    [id |-> id, dataset |-> dataset, batch_size |-> batch_size, sampler |-> sampler,
     num_workers |-> num_workers, collate_fn |-> collate_fn, pin_memory |-> pin_memory,
     worker_init_fn |-> worker_init_fn]

\* the sampler of the loader the trainer builds
NoSampler == [type |-> "default", dataset |-> Dataset(<<0>>), batch_size |-> 0,
              efficient_mode |-> FALSE]

\* the runner the trainer builds around its first data loader
Runner(dataset, batch_size) ==
    [epoch |-> 0, epoch_indices |-> <<>>,
     data_loader |-> DataLoader(1, dataset, batch_size, NoSampler, 4, "collate", TRUE, "worker_init")]

\* ClsIncrSampler.__iter__: the orders one epoch can draw.  Every index of the
\* sampler's dataset once, in some order; in efficient mode a shorter epoch
\* that may leave indices out.
ClsIncrSampler_iter(sampler) ==
    LET n == dataset_len(sampler.dataset)
        indices == 0..(n - 1)
    IN IF sampler.efficient_mode
       THEN {order \in SeqsUpTo(indices, n) : NoDup(order)}
       ELSE {order \in [1..n -> indices] : NoDup(order)}

\* iter(data_loader): the sample indices of one epoch; the trainer's own
\* loader reads its dataset front to back
DataLoader_iter(loader) ==
    IF loader.sampler.type = "ClsIncrSampler"
    THEN ClsIncrSampler_iter(loader.sampler)
    ELSE {[i \in 1..dataset_len(loader.dataset) |-> i - 1]}

\* TaskAdaptHook.__init__ on the registered hook config
TaskAdaptHook_init ==
    /\ site = "configure" /\ pc = "configured"
    /\ err = "" /\ training /\ cfg.custom_hooks.registered
    /\ hook' = [src_classes |-> cfg.custom_hooks.src_classes,
                dst_classes |-> cfg.custom_hooks.dst_classes,
                model_type |-> cfg.custom_hooks.model_type,
                efficient_mode |-> cfg.custom_hooks.efficient_mode,
                sampler_flag |-> cfg.custom_hooks.sampler_flag]
    /\ pc' = "before_epoch"
    /\ UNCHANGED <<site, lossVars, teachVars, err, mapVars, segVars, mixVars, refVars,
                   training, pre_stage_res, cfg, model_meta, cfg_ret, runner>>

\* the sampler built over the loader's dataset as it came, wrapper included
before_epoch_loader_outer_sampler(h, loader) ==
    IF h.sampler_flag
    THEN LET dataset == IF has_dataset(loader.dataset) THEN inner_dataset(loader.dataset)
                        ELSE loader.dataset
             sampler == ClsIncrSampler(loader.dataset, loader.batch_size, h.efficient_mode)
         IN DataLoader(loader.id + 1, dataset, loader.batch_size, sampler, loader.num_workers,
                       loader.collate_fn, FALSE, loader.worker_init_fn)
    ELSE loader

\* runner.data_loader after TaskAdaptHook.before_epoch(runner)
before_epoch_loader(h, loader) ==
    IF h.sampler_flag
    THEN LET dataset == IF has_dataset(loader.dataset) THEN inner_dataset(loader.dataset)
                        ELSE loader.dataset
             sampler == ClsIncrSampler(dataset, loader.batch_size, h.efficient_mode)
         IN DataLoader(loader.id + 1, dataset, loader.batch_size, sampler, loader.num_workers,
                       loader.collate_fn, FALSE, loader.worker_init_fn)
    ELSE loader

before_epoch ==
    /\ site = "configure" /\ pc = "before_epoch"
    /\ runner' = [runner EXCEPT !.data_loader = before_epoch_loader(hook, @)]
    /\ pc' = "train_epoch"
    /\ UNCHANGED <<site, lossVars, teachVars, err, mapVars, segVars, mixVars, refVars,
                   training, pre_stage_res, cfg, model_meta, cfg_ret, hook>>

\* the runner's epoch loop: one epoch is trained on what runner.data_loader
\* yields, then the next one starts
train_epoch ==
    /\ site = "configure" /\ pc = "train_epoch"
    /\ \E order \in DataLoader_iter(runner.data_loader) :
          runner' = [runner EXCEPT !.epoch = @ + 1, !.epoch_indices = order]
    /\ pc' = IF runner.epoch + 1 < MaxEpochs THEN "before_epoch" ELSE "trained"
    /\ UNCHANGED <<site, lossVars, teachVars, err, mapVars, segVars, mixVars, refVars,
                   training, pre_stage_res, cfg, model_meta, cfg_ret, hook>>

(***************************************************************************)
(* The calls of configure_task: a configuration, a checkpoint metadata,    *)
(* the training flag and the pre-stage result.  Settings the call never    *)
(* reads are left at one value.                                            *)
(***************************************************************************)
DataClassChoices == {<<>>, <<"a">>, <<"b", "a">>}
MetaClassChoices == {ABSENT, <<>>, <<"a">>, <<"b", "a">>}
SomeTasks == [t \in TaskNames |-> IF t = "t1" THEN <<"a">> ELSE ABSENT]
OtherTasks == [t \in TaskNames |-> IF t = "t1" THEN <<"b">> ELSE <<"a">>]

Cfg(task_adapt, model_type, train_type, model_classes, data_classes, new_classes, tasks) ==
    [task_adapt |-> task_adapt,
     model_classes |-> model_classes,
     data_classes |-> data_classes,
     train |-> [type |-> train_type, new_classes |-> new_classes, classes |-> ABSENT,
                tasks |-> tasks, pre_stage_res |-> FALSE, model_tasks |-> MISSING],
     model |-> [type |-> model_type,
                task_adapt |-> [set |-> FALSE, src_classes |-> ABSENT, dst_classes |-> ABSENT],
                head |-> [num_classes |-> 0, tasks |-> MISSING, old_tasks |-> MISSING,
                          loss |-> [type |-> "CrossEntropyLoss", gamma |-> 0]]],
     custom_hooks |-> NoHookCfg]

\* the runners of the calls below: an empty dataset, bare or in one wrapper
TaskRunners == {Runner(Dataset(Layers(w, 0)), MaxBatch) : w \in 0..1}

InitTask ==
    /\ site = "configure"
    /\ pc = "start"
    /\ err = ""
    /\ IdleMap
    /\ IdleLoss
    /\ IdleTeach
    /\ IdleRefine
    /\ cfg_ret = NoCfgRet
    /\ hook = <<>>
    /\ training \in BOOLEAN
    /\ pre_stage_res \in BOOLEAN
    /\ \E type \in {"mpa", "none"}, op \in AdaptOps, efficient_mode \in BOOLEAN,
          model_type \in {"SAMImageClassifier", "ImageClassifier"},
          train_type \in {"MPAClsDataset", "ClsTVDataset", "ClassIncDataset", "ImageNet"} :
          LET mpa == training /\ type = "mpa"
              task_adapt == [type |-> type, op |-> op, efficient_mode |-> efficient_mode]
          IN /\ ~mpa => (efficient_mode = FALSE /\ model_type = "ImageClassifier")
             /\ (~mpa /\ ~pre_stage_res) => train_type = "MPAClsDataset"
             /\ (~mpa /\ pre_stage_res) => train_type \in {"ClassIncDataset", "ImageNet"}
             /\ (mpa /\ ~pre_stage_res) => train_type \in {"MPAClsDataset", "ImageNet"}
             /\ \/ \E model_classes \in ClassLists(MaxCfgLen),
                      new_classes \in ClassLists(MaxCfgLen) \cup {ABSENT},
                      data_classes \in DataClassChoices,
                      meta_classes \in MetaClassChoices :
                      /\ cfg = Cfg(task_adapt, model_type, train_type,
                                   model_classes, data_classes, new_classes, MISSING)
                      /\ model_meta = [CLASSES |-> meta_classes, tasks |-> MISSING]
                \/ \E model_classes \in {<<>>, <<"a">>},
                      meta_tasks \in {MISSING, SomeTasks, OtherTasks} :
                      /\ cfg = Cfg(task_adapt, model_type, train_type,
                                   model_classes, <<>>, ABSENT, SomeTasks)
                      /\ model_meta = [CLASSES |-> ABSENT, tasks |-> meta_tasks]
    /\ IF training /\ cfg.task_adapt.type = "mpa" THEN runner \in TaskRunners ELSE runner = <<>>

NextTask ==
    \/ configure_task
    \/ TaskAdaptHook_init
    \/ before_epoch
    \/ train_epoch

SpecTask == InitTask /\ [][NextTask]_vars

(***************************************************************************)
(* The epochs of one training run: class-incremental configurations with   *)
(* and without a new-class delta, over datasets of a few samples inside    *)
(* zero or more wrappers.                                                  *)
(***************************************************************************)
EpochRunners ==
    {Runner(Dataset(Layers(w, n)), b) : w \in 0..MaxWrappers, n \in 0..MaxSamples, b \in 1..MaxBatch}

InitEpochs ==
    /\ site = "configure"
    /\ pc = "start"
    /\ err = ""
    /\ IdleMap
    /\ IdleLoss
    /\ IdleTeach
    /\ IdleRefine
    /\ cfg_ret = NoCfgRet
    /\ hook = <<>>
    /\ training = TRUE
    /\ pre_stage_res = FALSE
    /\ \E op \in {"REPLACE", "MERGE"}, efficient_mode \in BOOLEAN, new_classes \in {<<"a">>, <<"b">>} :
          /\ cfg = Cfg([type |-> "mpa", op |-> op, efficient_mode |-> efficient_mode],
                       "ImageClassifier", "MPAClsDataset", <<"a">>, <<"b", "a">>, new_classes, MISSING)
          /\ model_meta = [CLASSES |-> <<"a">>, tasks |-> MISSING]
    /\ runner \in EpochRunners

NextEpochs ==
    \/ configure_task
    \/ TaskAdaptHook_init
    \/ before_epoch
    \/ train_epoch

SpecEpochs == InitEpochs /\ [][NextEpochs]_vars

(***************************************************************************)
(* Properties of the refiners.  The Python exceptions stand for the        *)
(* specification's error kinds: ValueError is its ValidationError (empty   *)
(* new-class list), the KeyError of an unsupported op its                  *)
(* ConfigurationError.                                                     *)
(***************************************************************************)
ClsCall == site = "refine_cls" /\ pc = "start" /\ train_cfg.new_classes # 0 /\ meta.CLASSES # 0
ClsDone == site = "refine_cls" /\ pc = "done" /\ train_cfg.new_classes # 0 /\ meta.CLASSES # 0
TasksCall == site = "refine_tasks" /\ pc = "start" /\ train_cfg.tasks # 0
TasksDone == site = "refine_tasks" /\ pc = "done" /\ train_cfg.tasks # 0

\* dst is `old` followed by the names of `new` that are not in `old`, in the
\* order they have in `new`, each once.
IsMergeOf(dst, old, new) ==
    /\ Len(dst) >= Len(old)
    /\ SubSeq(dst, 1, Len(old)) = old
    /\ LET added == SubSeq(dst, Len(old) + 1, Len(dst))
       IN /\ Range(added) = Range(new) \ Range(old)
          /\ NoDup(added)
          /\ \A i, j \in 1..Len(added) :
                i < j => PyIndexOf(new, added[i]) < PyIndexOf(new, added[j])

\* C3: refine_cls with REPLACE and a non-empty new_classes returns a
\* destination list equal to new_classes (same names, same order) and returns
\* the checkpoint's old class list, unchanged, as old_classes.
C3_ReplaceReturnsNewClasses ==
    [][(ClsCall /\ adapt_type = "REPLACE" /\ Len(lists[train_cfg.new_classes]) > 0) =>
          /\ err' = ""
          /\ ret'.dst_classes # 0
          /\ lists'[ret'.dst_classes] = lists[train_cfg.new_classes]
          /\ ret'.old_classes = meta.CLASSES
          /\ lists'[ret'.old_classes] = lists[meta.CLASSES]]_vars

\* C3 witness: REPLACE has returned a destination of two or more classes that
\* differs from a non-empty old list.
C3_Witness ==
    /\ ClsDone /\ adapt_type = "REPLACE" /\ err = "" /\ ret.dst_classes # 0
    /\ Len(lists[ret.dst_classes]) >= 2
    /\ Len(lists[meta.CLASSES]) >= 1
    /\ lists[ret.dst_classes] # lists[meta.CLASSES]

\* C4: refine_cls with REPLACE and an empty new_classes fails with the
\* validation error (ValueError) and returns no destination class list,
\* whatever the old class list is.
C4_ReplaceEmptyFails ==
    (ClsDone /\ adapt_type = "REPLACE" /\ Len(lists[train_cfg.new_classes]) = 0) =>
        (err = "ValueError" /\ ret = NoRet)

\* C4 witness: REPLACE was called with an empty new_classes and a non-empty
\* old class list.
C4_Witness ==
    /\ ClsDone /\ adapt_type = "REPLACE"
    /\ Len(lists[train_cfg.new_classes]) = 0
    /\ Len(lists[meta.CLASSES]) >= 1

\* C5: refine_cls with MERGE returns the old class list followed by exactly the
\* names of new_classes that are not in the old list, in the order they have
\* in new_classes; the result has no duplicate and holds every old and every
\* new class exactly once.
C5_MergeAppendsNewClasses ==
    (ClsDone /\ adapt_type = "MERGE") =>
        /\ err = "" /\ ret.dst_classes # 0
        /\ LET dst == lists[ret.dst_classes]
               old == lists[meta.CLASSES]
               new == lists[train_cfg.new_classes]
           IN /\ IsMergeOf(dst, old, new)
              /\ NoDup(dst)
              /\ Range(dst) = Range(old) \cup Range(new)

\* C5 witness: MERGE has returned for an old list and a new list that overlap,
\* with two new names appended.
C5_Witness ==
    /\ ClsDone /\ adapt_type = "MERGE" /\ err = ""
    /\ Range(lists[meta.CLASSES]) \cap Range(lists[train_cfg.new_classes]) # {}
    /\ Len(lists[ret.dst_classes]) = Len(lists[meta.CLASSES]) + 2

\* C6: refine_tasks with REPLACE returns the new task set wholesale (every task
\* and class list of new_tasks, nothing of the checkpoint's tasks) and an
\* empty old task set.
C6_ReplaceTasksWholesale ==
    [][(TasksCall /\ adapt_type = "REPLACE") =>
          /\ err' = ""
          /\ ret'.model_tasks # 0 /\ ret'.old_tasks # 0
          /\ TaskSetOf(lists', dicts'[ret'.model_tasks]) =
                TaskSetOf(lists, dicts[train_cfg.tasks])
          /\ Keys(dicts'[ret'.old_tasks]) = {}]_vars

\* C6 witness: REPLACE has returned while the checkpoint held a task set with
\* other content than the new one.
C6_Witness ==
    /\ TasksDone /\ adapt_type = "REPLACE" /\ err = "" /\ meta.tasks # 0
    /\ Keys(dicts[meta.tasks]) # {} /\ Keys(dicts[train_cfg.tasks]) # {}
    /\ TaskSetOf(lists, dicts[meta.tasks]) # TaskSetOf(lists, dicts[train_cfg.tasks])

\* C7: refine_tasks with MERGE returns a deep copy of the old task set in which
\* every task of new_tasks already in the old set has the old list followed by
\* the new classes not in it (order kept), every task of new_tasks absent from
\* the old set is added with its class list as given, and tasks only in the
\* old set are unchanged; the old task set of the metadata is not modified.
C7_MergeTasks ==
    [][(TasksCall /\ adapt_type = "MERGE" /\ meta.tasks # 0) =>
          LET old == TaskSetOf(lists, dicts[meta.tasks])
              new == TaskSetOf(lists, dicts[train_cfg.tasks])
              dst == TaskSetOf(lists', dicts'[ret'.model_tasks])
          IN /\ err' = ""
             /\ ret'.model_tasks # meta.tasks
             /\ ret'.old_tasks = meta.tasks
             /\ TaskSetOf(lists', dicts'[meta.tasks]) = old
             /\ \A t \in TaskNames :
                   /\ (new[t] # ABSENT /\ old[t] # ABSENT) => IsMergeOf(dst[t], old[t], new[t])
                   /\ (new[t] # ABSENT /\ old[t] = ABSENT) => dst[t] = new[t]
                   /\ new[t] = ABSENT => dst[t] = old[t]
                   /\ dicts'[ret'.model_tasks][t] # 0 =>
                         dicts'[ret'.model_tasks][t] # dicts[meta.tasks][t]]_vars

\* C7 witness: MERGE has returned with one task extended by a new class and
\* another task present on one side only.
C7_Witness ==
    /\ TasksDone /\ adapt_type = "MERGE" /\ err = "" /\ meta.tasks # 0
    /\ \E t, u \in TaskNames :
          /\ dicts[meta.tasks][t] # 0 /\ dicts[train_cfg.tasks][t] # 0
          /\ Len(lists[dicts[meta.tasks][t]]) >= 1
          /\ Len(lists[dicts[ret.model_tasks][t]]) > Len(lists[dicts[meta.tasks][t]])
          /\ (dicts[meta.tasks][u] = 0) # (dicts[train_cfg.tasks][u] = 0)

\* C8: both refiners fail with the configuration error (KeyError) for every op
\* other than 'REPLACE' and 'MERGE', and produce no destination label space.
C8_UnsupportedOpFails ==
    (pc = "done" /\ site \in {"refine_cls", "refine_tasks"}
        /\ adapt_type \notin {"REPLACE", "MERGE"}) =>
        (err = "KeyError" /\ ret = NoRet)

\* C8 witness: refine_tasks was called with an unsupported op on inputs that
\* REPLACE and MERGE accept.
C8_Witness ==
    /\ TasksDone /\ meta.tasks # 0 /\ adapt_type \notin {"REPLACE", "MERGE"}
    /\ Keys(dicts[train_cfg.tasks]) # {}

(***************************************************************************)
(* Properties of configure_task and of the TaskAdaptHook.                  *)
(***************************************************************************)
\* configure_task returned normally from its training branch with type 'mpa'
MpaConfigured ==
    /\ site = "configure" /\ pc # "start" /\ err = ""
    /\ training /\ cfg.task_adapt.type = "mpa"

Ascending(s) == \A i, j \in 1..Len(s) : i < j => Rank(s[i]) < Rank(s[j])
OrderedAsIn(s, ref) == \A i, j \in 1..Len(s) : i < j => PyIndexOf(ref, s[i]) < PyIndexOf(ref, s[j])

\* C9 (as amended): after configure_task (training, type 'mpa') the new_classes
\* written to the train data config holds exactly the classes of the destination
\* list that are not in the old list, each once, in ascending order of the class
\* names, whatever their order in the destination list.
C9_DeltaIsSortedDifference ==
    MpaConfigured =>
        /\ NoDup(cfg.train.new_classes)
        /\ Range(cfg.train.new_classes) = Range(cfg_ret.dst_classes) \ Range(model_meta.CLASSES)
        /\ Ascending(cfg.train.new_classes)

C9_Witness ==
    /\ MpaConfigured
    /\ Len(cfg.train.new_classes) = 2
    /\ ~OrderedAsIn(cfg.train.new_classes, cfg_ret.dst_classes)

\* C9 as stated: the delta keeps the relative order its classes have in the
\* destination list.
C9_Original_DeltaInDestinationOrder ==
    MpaConfigured =>
        /\ NoDup(cfg.train.new_classes)
        /\ Range(cfg.train.new_classes) = Range(cfg_ret.dst_classes) \ Range(model_meta.CLASSES)
        /\ OrderedAsIn(cfg.train.new_classes, cfg_ret.dst_classes)

\* C10: configure_task registers the TaskAdaptHook with sampler_flag true exactly
\* when the new-class delta is non-empty, the hook object carries that flag, and
\* with the flag false before_epoch leaves runner.data_loader as it was, at every
\* epoch.
C10_SamplerIffDelta ==
    [][ /\ (MpaConfigured' =>
               /\ cfg'.custom_hooks.registered
               /\ cfg'.custom_hooks.sampler_flag = (cfg'.train.new_classes # <<>>))
        /\ (pc' \in {"before_epoch", "train_epoch", "trained"} =>
               hook'.sampler_flag = (cfg'.train.new_classes # <<>>))
        /\ (pc = "before_epoch" /\ pc' = "train_epoch" /\ cfg.train.new_classes = <<>> =>
               runner'.data_loader = runner.data_loader)
        /\ (pc = "before_epoch" /\ pc' = "train_epoch" /\ cfg.train.new_classes # <<>> =>
               /\ runner'.data_loader.id # runner.data_loader.id
               /\ runner'.data_loader.sampler.type = "ClsIncrSampler") ]_vars

C10_Witness ==
    /\ pc = "trained"
    /\ cfg.train.new_classes = <<>>
    /\ runner.epoch = MaxEpochs
    /\ runner.data_loader.id = 1

(***************************************************************************)
(* The weight mixer on its own: heads that differ in class list and anchor *)
(* groups, and heads that differ in layout, depth, bias and key prefix.    *)
(***************************************************************************)
HeadLayouts == {"normal", "dw", "other"}
HeadLevels == {1, 2, 11}
Prefixes == {"", "module."}

InitMix ==
    /\ site = "mixer"
    /\ pc = "start"
    /\ err = ""
    /\ src2dst = <<>> /\ data2model = <<>> /\ adapt_results = <<>>
    /\ new_class_indices = <<>> /\ model2data = <<>>
    /\ img_indices = [old |-> <<>>, new |-> <<>>]
    /\ model2chkpt = <<>>
    /\ IdleLabels /\ IdleSeg /\ IdleRefine /\ IdleTask /\ IdleLoss /\ IdleTeach
    /\ prefix \in Prefixes
    /\ \/ \E layout \in {"normal", "dw"}, ma, ca \in 1..MaxAnchors :
             /\ cls_a \in ClassLists(MaxLen)
             /\ cls_b \in ClassLists(MaxLen)
             /\ LET inp == MixerInput(
                        StateDict("init", "", layout, 1, TRUE, ma, Len(cls_a) + 1),
                        StateDict("ckpt", prefix, layout, 1, TRUE, ca, Len(cls_b) + 1))
                IN /\ tensors = inp.tensors
                   /\ model_dict = inp.model_dict
                   /\ chkpt_dict = inp.chkpt_dict
       \/ \E mlayout, clayout \in HeadLayouts, mlevels, clevels \in HeadLevels,
             mbias, cbias \in BOOLEAN :
             /\ cls_a = <<"a", "b">>
             /\ cls_b = <<"b">>
             /\ LET inp == MixerInput(
                        StateDict("init", "", mlayout, mlevels, mbias, 1, Len(cls_a) + 1),
                        StateDict("ckpt", prefix, clayout, clevels, cbias, 1, Len(cls_b) + 1))
                IN /\ tensors = inp.tensors
                   /\ model_dict = inp.model_dict
                   /\ chkpt_dict = inp.chkpt_dict

NextMix == load_state_dict_pre_hook

SpecMix == InitMix /\ [][NextMix]_vars

(***************************************************************************)
(* Properties of the weight mixer.  A step of the hook is compared with    *)
(* the state it started from: model_dict and chkpt_dict (unprimed) are the *)
(* dicts handed to the hook, chkpt_dict' is the dict it leaves.            *)
(***************************************************************************)
MixStep == site = "mixer" /\ pc = "start" /\ pc' = "done"
MixNames == DOMAIN model_dict
BothSides(n) == n \in DOMAIN model_dict /\ (prefix \o n) \in DOMAIN chkpt_dict
dst_space == cls_a \o <<BG>>
src_space == cls_b \o <<BG>>
\* anchor groups of a block of `rows` rows in a label space
AnchorsOf(rows, space) == Len(rows) \div Len(space)

\* C11: for every mixed parameter, every anchor group a below the smaller
\* anchor count and every destination class m (background included): if the
\* checkpoint list has a class of the same name at index c, the resulting
\* row a * num_dst_classes + m is checkpoint row a * num_src_classes + c,
\* otherwise it is the model's initialized row.
C11_RowsByClassName ==
    [][MixStep =>
        \A n \in MixNames :
            (BothSides(n) /\ chkpt_dict'[prefix \o n] # chkpt_dict[prefix \o n]) =>
                LET init == tensors[model_dict[n]]
                    ckpt == tensors[chkpt_dict[prefix \o n]]
                    out == tensors'[chkpt_dict'[prefix \o n]]
                    anchors == Min(AnchorsOf(ckpt, src_space), AnchorsOf(init, dst_space))
                IN \A a \in 0..(anchors - 1), m \in 0..(Len(dst_space) - 1) :
                      LET row == a * Len(dst_space) + m + 1
                      IN IF dst_space[m + 1] \in Range(src_space)
                         THEN out[row] = ckpt[a * Len(src_space)
                                              + PyIndexOf(src_space, dst_space[m + 1]) + 1]
                         ELSE out[row] = init[row]]_vars

\* C11 witness: a mixed block of two anchor groups that holds copied checkpoint
\* rows, one of them moved to another class index, and initialized rows.
C11_Witness ==
    /\ site = "mixer" /\ pc = "done" /\ Len(cls_a) = 2
    /\ \E i \in 1..Len(cls_a) : cls_a[i] \in Range(cls_b)
    /\ \E k \in DOMAIN chkpt_dict :
          LET out == tensors[chkpt_dict[k]]
          IN /\ Len(out) = 2 * Len(dst_space)
             /\ \E r \in 1..Len(out) : out[r][1] = "init"
             /\ \E r \in 1..Len(out) : out[r][1] = "ckpt" /\ out[r][3] # r - 1
             /\ out[Len(out)][1] = "ckpt"

\* C12: the anchor groups of each side are block rows / classes of that label
\* space (background included); exactly the groups below the smaller count are
\* mixed, group a of the result taking its rows from group a of the checkpoint
\* (row a * num_classes + class on each side); every row of a destination group
\* beyond that count keeps its initialized value, and no row of a checkpoint
\* group beyond it appears in the result.
C12_AnchorGroups ==
    [][MixStep =>
        \A n \in MixNames :
            (BothSides(n) /\ chkpt_dict'[prefix \o n] # chkpt_dict[prefix \o n]) =>
                LET init == tensors[model_dict[n]]
                    ckpt == tensors[chkpt_dict[prefix \o n]]
                    out == tensors'[chkpt_dict'[prefix \o n]]
                    nd == Len(dst_space)
                    ns == Len(src_space)
                    anchors == Min(AnchorsOf(ckpt, src_space), AnchorsOf(init, dst_space))
                IN /\ Len(out) = Len(init)
                   /\ \A a \in 0..(anchors - 1) :
                         \* the background row of group a comes from group a
                         out[a * nd + (nd - 1) + 1] = ckpt[a * ns + (ns - 1) + 1]
                   /\ \A r \in 1..Len(out) :
                         /\ (r - 1) \div nd >= anchors => out[r] = init[r]
                         /\ \A j \in 1..Len(ckpt) :
                               out[r] = ckpt[j] =>
                                   /\ (j - 1) \div ns = (r - 1) \div nd
                                   /\ (j - 1) \div ns < anchors]_vars

\* C12 witness: a mixed block of two anchor groups whose first group took rows
\* from a checkpoint with one group and whose second group is as initialized.
C12_Witness ==
    /\ site = "mixer" /\ pc = "done" /\ Len(cls_b) >= 1
    /\ \E k \in DOMAIN chkpt_dict :
          LET out == tensors[chkpt_dict[k]]
              nd == Len(dst_space)
          IN /\ Len(out) = 2 * nd
             /\ out[nd][1] = "ckpt"
             /\ \A r \in (nd + 1)..(2 * nd) : out[r][1] = "init"

\* C13: when the checkpoint class list equals the model class list and a
\* checkpoint block has the shape of the model block, the block written back
\* to the checkpoint dict equals the original checkpoint block row for row.
C13_IdentityRoundTrip ==
    [][(MixStep /\ cls_a = cls_b) =>
        \A n \in MixNames :
            (BothSides(n)
             /\ Len(tensors[model_dict[n]]) = Len(tensors[chkpt_dict[prefix \o n]])) =>
                tensors'[chkpt_dict'[prefix \o n]] = tensors[chkpt_dict[prefix \o n]]]_vars

\* C13 witness: equal class lists, and an entry of the checkpoint dict that is a
\* new tensor with the rows of the checkpoint tensor it replaced.
C13_Witness ==
    /\ site = "mixer" /\ pc = "done"
    /\ cls_a = cls_b /\ Len(cls_a) >= 2
    /\ \E k \in DOMAIN chkpt_dict, id \in 1..Len(tensors) :
          /\ id < chkpt_dict[k]
          /\ tensors[id] = tensors[chkpt_dict[k]]
          /\ Len(tensors[id]) = 2 * Len(dst_space)
          /\ tensors[id][1][1] = "ckpt"

\* The class-relevant names of head level l, and the head levels a state dict
\* of this model can have.
ClsWeightNames(l) == {FormatName(".weight", l), FormatName(".3.weight", l)}
ClsParamNames(l) == ClsWeightNames(l) \cup {FormatName(".bias", l), FormatName(".3.bias", l)}
AllLevels == 0..(Len(LevelStr) - 1)
\* one of the two patterns has its parameter of level l on both sides
PresentAt(l) == \E n \in ClsWeightNames(l) : BothSides(n)
\* the first level at which neither has
FirstMissing ==
    IF \A l \in AllLevels : PresentAt(l) THEN Len(LevelStr)
    ELSE CHOOSE l \in AllLevels : ~PresentAt(l) /\ \A j \in 0..(l - 1) : PresentAt(j)
\* the hook replaced the checkpoint entry of model parameter n
Replaced(n) == BothSides(n) /\ chkpt_dict'[prefix \o n] # chkpt_dict[prefix \o n]

\* C14 (as amended): the mixer visits the head levels 0, 1, 2, ... in
\* increasing order, at most the levels 0 to 9, and stops at the first level
\* where neither pattern has its parameter on both sides: a class-relevant
\* parameter (weight or bias) is mixed exactly when it is on both sides and its
\* level is below both that first level and 10.
C14_LevelsUpToFirstMissing ==
    [][MixStep =>
        \A l \in AllLevels : \A n \in ClsParamNames(l) :
            Replaced(n) <=> (BothSides(n) /\ l < FirstMissing /\ l < MAX_LEVELS)]_vars

\* a checkpoint entry that holds a mixed tensor (in the heads of different
\* class lists a mixed tensor has an initialized row)
HoldsMixed(k) ==
    /\ k \in DOMAIN chkpt_dict
    /\ \E r \in 1..Len(tensors[chkpt_dict[k]]) : tensors[chkpt_dict[k]][r][1] = "init"

\* C14 witness: levels 0 and 1 were mixed, weight and bias, and level 2, which
\* only the checkpoint has, was not.
C14_Witness ==
    /\ site = "mixer" /\ pc = "done"
    /\ HoldsMixed(prefix \o FormatName(".3.weight", 0))
    /\ HoldsMixed(prefix \o FormatName(".3.bias", 0))
    /\ HoldsMixed(prefix \o FormatName(".3.weight", 1))
    /\ HoldsMixed(prefix \o FormatName(".3.bias", 1))
    /\ (prefix \o FormatName(".3.weight", 2)) \in DOMAIN chkpt_dict
    /\ ~HoldsMixed(prefix \o FormatName(".3.weight", 2))

\* C14 as stated: every level before the first missing one is mixed, however
\* many levels the head has.
C14_Original_AllLevelsBeforeFirstMissing ==
    [][MixStep =>
        \A l \in AllLevels : \A n \in ClsParamNames(l) :
            Replaced(n) <=> (BothSides(n) /\ l < FirstMissing)]_vars

\* C15: a class-relevant name that only one side has, or a checkpoint of no
\* known naming pattern, never makes the mixer raise: the hook returns, no
\* entry is added to or removed from the checkpoint dict, an entry whose name
\* the model does not have keeps its tensor, and when level 0 matches in
\* neither pattern the checkpoint dict is left as it was.
C15_MismatchIsSkipped ==
    [][MixStep =>
        /\ err' = ""
        /\ DOMAIN chkpt_dict' = DOMAIN chkpt_dict
        /\ \A k \in DOMAIN chkpt_dict :
              (\A n \in MixNames : k # prefix \o n) =>
                  /\ chkpt_dict'[k] = chkpt_dict[k]
                  /\ tensors'[chkpt_dict[k]] = tensors[chkpt_dict[k]]
        /\ ~PresentAt(0) => chkpt_dict' = chkpt_dict]_vars

\* C15 witness: the hook returned after mixing the weight of level 0 and
\* skipping its bias, which the checkpoint has and the model has not, and a
\* level 1 that only the checkpoint has.
C15_Witness ==
    /\ site = "mixer" /\ pc = "done" /\ err = ""
    /\ HoldsMixed(prefix \o FormatName(".weight", 0))
    /\ (prefix \o FormatName(".bias", 0)) \in DOMAIN chkpt_dict
    /\ FormatName(".bias", 0) \notin DOMAIN model_dict
    /\ ~HoldsMixed(prefix \o FormatName(".bias", 0))
    /\ (prefix \o FormatName(".weight", 1)) \in DOMAIN chkpt_dict
    /\ FormatName(".weight", 1) \notin DOMAIN model_dict

\* C16: the mixer changes no tensor in place, neither the model's nor the
\* checkpoint's, and leaves model.state_dict() as it was; an entry of the
\* checkpoint dict is either left unchanged or, for a name on both sides,
\* replaced by a tensor that did not exist before and has the row count of the
\* model's parameter.
C16_OnlyFreshTensorsWritten ==
    [][MixStep =>
        /\ \A id \in 1..Len(tensors) : tensors'[id] = tensors[id]
        /\ model_dict' = model_dict
        /\ DOMAIN chkpt_dict' = DOMAIN chkpt_dict
        /\ \A k \in DOMAIN chkpt_dict :
              \/ chkpt_dict'[k] = chkpt_dict[k]
              \/ /\ chkpt_dict'[k] > Len(tensors)
                 /\ \E n \in MixNames :
                       /\ k = prefix \o n
                       /\ \E l \in AllLevels : n \in ClsParamNames(l)
                       /\ Len(tensors'[chkpt_dict'[k]]) = Len(tensors[model_dict[n]])]_vars

\* C16 witness: a checkpoint entry was replaced by a new tensor, longer than
\* the checkpoint's, while the model's tensor of that name is as initialized.
C16_Witness ==
    /\ site = "mixer" /\ pc = "done" /\ prefix # "" /\ Len(cls_a) >= 1
    /\ \E n \in DOMAIN model_dict :
          /\ HoldsMixed(prefix \o n)
          /\ chkpt_dict[prefix \o n] # model_dict[n]
          /\ Len(tensors[chkpt_dict[prefix \o n]]) = 2 * Len(dst_space)
          /\ \A r \in 1..Len(tensors[model_dict[n]]) : tensors[model_dict[n]][r][1] = "init"

(***************************************************************************)
(* Properties of the label remapper's pipeline step.                       *)
(***************************************************************************)
CallStep == site = "labels" /\ pc = "built" /\ pc' = "done"

\* C17: AdaptClassLabels.__call__ replaces data['gt_labels'] by a sequence of
\* the same length and order in which each source label s is the index, in
\* the destination list, of the class named like source class s (-1 when the
\* destination list has no such class); it raises nothing for the labels of
\* the source dataset and changes no other key of the sample.
C17_LabelsMappedByName ==
    [][CallStep =>
        /\ err' = ""
        /\ DOMAIN data' = DOMAIN data
        /\ data'.img = data.img
        /\ Len(data'.gt_labels) = Len(data.gt_labels)
        /\ \A k \in 1..Len(data.gt_labels) :
              LET name == cls_a[data.gt_labels[k] + 1]
                  d == data'.gt_labels[k]
              IN IF name \in Range(cls_b)
                 THEN d \in 0..(Len(cls_b) - 1) /\ cls_b[d + 1] = name
                 ELSE d = -1]_vars

\* C17 witness: a processed sample with two boxes, one of a class the
\* destination list lacks and one whose class sits at another position there.
C17_Witness ==
    /\ site = "labels" /\ pc = "done" /\ err = ""
    /\ Len(data.gt_labels) = 2
    /\ \E k, l \in 1..2 :
          /\ data.gt_labels[k] = -1
          /\ data.gt_labels[l] >= 0
          /\ cls_b[data.gt_labels[l] + 1] # cls_a[data.gt_labels[l] + 1]

(***************************************************************************)
(* CustomVFNetHead.loss, run on a sample the label remapper has processed. *)
(* The head is built for the destination classes; get_targets (ATSS or     *)
(* FCOS assignment of the detection library) gives every point the label   *)
(* of the ground-truth box it is assigned to, or num_classes (background)  *)
(* when it is assigned to none; which box a point gets is the library's    *)
(* geometric choice and is left open here.                                 *)
(***************************************************************************)
MaxPoints == 2     \* most points of the feature maps

\* labels below the background index, negative ones included
pos_inds_below_bg(labels, bg_class_ind) ==
    SortInts({p - 1 : p \in {q \in 1..Len(labels) : labels[q] < bg_class_ind}})

\* torch.where(((flatten_labels >= 0) & (flatten_labels < bg_class_ind)) > 0)[0]
pos_inds_of(labels, bg_class_ind) ==
    SortInts({p - 1 : p \in {q \in 1..Len(labels) : labels[q] >= 0 /\ labels[q] < bg_class_ind}})

\* labels, ... = self.get_targets(...); flatten_labels = torch.cat(labels)
get_targets(asg, gt_labels, num_classes) ==
    [p \in 1..Len(asg) |-> IF asg[p] >= 0 THEN PyGet(gt_labels, asg[p]) ELSE num_classes]

loss ==
    /\ site = "labels" /\ pc = "done" /\ err = ""
    /\ \E n \in 1..MaxPoints :
       \E asg \in [1..n -> -1..(Len(data.gt_labels) - 1)] :
          LET labels == get_targets(asg, data.gt_labels, head.num_classes)
              bg_class_ind == head.num_classes
              pos == pos_inds_of(labels, bg_class_ind)
              pos_labels == [k \in 1..Len(pos) |-> PyGet(labels, pos[k])]
              cls_out_channels == head.num_classes
              indexable == \A k \in 1..Len(pos) :
                               /\ -cls_out_channels <= pos_labels[k]
                               /\ pos_labels[k] < cls_out_channels
              column(l) == IF l >= 0 THEN l ELSE cls_out_channels + l
          IN /\ assigned' = asg
             /\ flatten_labels' = labels
             /\ pos_inds' = pos
             /\ IF head.use_vfl /\ Len(pos) > 0 /\ ~indexable
                THEN /\ err' = "IndexError"
                     /\ loss_out' = <<>>
                ELSE /\ err' = ""
                     /\ loss_out' =
                          [num_pos |-> Len(pos),
                           pos_labels |-> pos_labels,
                           cls_iou_targets |->
                               IF head.use_vfl
                               THEN {<<pos[k], column(pos_labels[k])>> : k \in 1..Len(pos)}
                               ELSE {},
                           neg_indices |->
                               IF head.bg_loss_weight >= 0
                               THEN {p - 1 : p \in {q \in 1..Len(labels) : labels[q] = head.num_classes}}
                               ELSE {}]
    /\ pc' = "loss"
    /\ UNCHANGED <<site, head, mapVars, segVars, mixVars, refVars, taskVars, teachVars>>

InitLoss ==
    /\ site = "labels"
    /\ pc = "start"
    /\ err = ""
    /\ cls_a \in ClassLists(MaxLen)
    /\ cls_b \in ClassLists(MaxLen)
    /\ \E labels \in SrcLabelLists(cls_a) : data = [gt_labels |-> labels, img |-> "img0"]
    /\ src2dst = <<>> /\ data2model = <<>> /\ adapt_results = <<>>
    /\ new_class_indices = <<>> /\ model2data = <<>>
    /\ img_indices = [old |-> <<>>, new |-> <<>>]
    /\ model2chkpt = <<>>
    /\ IdleSeg /\ IdleMix /\ IdleRefine /\ IdleTask
    /\ \E use_vfl \in BOOLEAN, bg_loss_weight \in {-1, 1} :
          head = [num_classes |-> Len(cls_b), use_vfl |-> use_vfl,
                  bg_loss_weight |-> bg_loss_weight]
    /\ assigned = <<>> /\ flatten_labels = <<>> /\ pos_inds = <<>> /\ loss_out = <<>>
    /\ IdleTeach

NextLoss ==
    \/ NewAdaptClassLabels
    \/ AdaptClassLabels_call
    \/ loss

SpecLoss == InitLoss /\ [][NextLoss]_vars

\* ---------------------------------------------------------------------------
\* UnbiasedTeacher (mpa/modules/models/detectors/unbiased_teacher.py)
\*
\* A state-dict key is a string; the hooks test it for a substring and replace
\* a substring.  A key is modelled as the sequence of its tokens: "model_t",
\* "model_s", "." and "w" (any other text), so that "model_t.w" is
\* <<"model_t", ".", "w">> and substring tests are tests on adjacent tokens.
\* A state dict is the sequence of its <<key, value>> entries in insertion
\* order, with no key twice.
\* ---------------------------------------------------------------------------
MaxKeyLen == 3
MaxParams == 2
MaxCalls == 2

DOT == "."
NameToks == {"model_t", "model_s", "w"}
KeyToks == NameToks \cup {DOT}

\* the keys a detector's own state dict can have: names joined by dots
WellFormed(k) == Len(k) >= 1 /\ k[1] # DOT /\ k[Len(k)] # DOT /\ \A i \in 1..(Len(k) - 1) : ~(k[i] = DOT /\ k[i + 1] = DOT)
InnerKeys == {k \in UNION {[1..n -> KeyToks] : n \in 1..MaxKeyLen} : WellFormed(k)}

\* `marker + '.' in k`
str_contains(k, marker) == \E i \in 1..(Len(k) - 1) : k[i] = marker /\ k[i + 1] = DOT

\* `k.replace(marker + '.', '')`: every occurrence, left to right
RECURSIVE str_remove(_, _)
str_remove(k, marker) == IF Len(k) < 2 THEN k ELSE IF k[1] = marker /\ k[2] = DOT THEN str_remove(SubSeq(k, 3, Len(k)), marker) ELSE <<k[1]>> \o str_remove(Tail(k), marker)

dict_keys(d) == [i \in 1..Len(d) |-> d[i][1]]
dict_has(d, k) == \E i \in 1..Len(d) : d[i][1] = k
\* `d[k] = v`: an existing key keeps its place and takes the new value
dict_set(d, k, v) == IF dict_has(d, k) THEN [i \in 1..Len(d) |-> IF d[i][1] = k THEN <<k, v>> ELSE d[i]] ELSE Append(d, <<k, v>>)
dict_get(d, k) == d[CHOOSE i \in 1..Len(d) : d[i][1] = k][2]
dict_pop(d, k) == SelectSeq(d, LAMBDA e : e[1] # k)

\* the key under which state_dict_hook stores an entry
saved_key(k) == IF str_contains(k, "model_t") THEN str_remove(k, "model_t") ELSE k

RECURSIVE state_dict_loop(_, _)
state_dict_loop(items, output) == IF items = <<>> THEN output ELSE state_dict_loop(Tail(items), dict_set(output, saved_key(Head(items)[1]), Head(items)[2]))

teacher_state_dict_hook(sd) == state_dict_loop(sd, <<>>)

\* the key under which load_state_dict_pre_hook stores an entry
loaded_key(k) == IF ~str_contains(k, "model_s") THEN <<"model_t", DOT>> \o k ELSE k

RECURSIVE pre_hook_loop(_, _)
pre_hook_loop(keys, sd) == IF keys = <<>> THEN sd ELSE pre_hook_loop(Tail(keys), dict_set(dict_pop(sd, Head(keys)), loaded_key(Head(keys)), dict_get(sd, Head(keys))))

teacher_load_state_dict_pre_hook(sd) == pre_hook_loop(dict_keys(sd), sd)

\* the state dict of an UnbiasedTeacher built around a detector with the
\* given parameters: model_s is registered first, model_t is its deep copy
ModuleState(params) == [i \in 1..Len(params) |-> <<<<"model_s", DOT>> \o params[i], <<"s", i>>>>] \o [i \in 1..Len(params) |-> <<<<"model_t", DOT>> \o params[i], <<"t", i>>>>]

\* the loss names the student detector returns
StudentLosses == {"loss_cls", "loss_bbox"}

\* weights are in thousandths for unlabeled_loss_weight and in units for
\* bg_loss_weight
UL_WEIGHT_MIN == 1

UnbiasedTeacher(unlabeled_loss_weight, unlabeled_loss_names, enable_unlabeled_loss, bg_loss_weight) == [unlabeled_loss_weight |-> unlabeled_loss_weight, unlabeled_loss_names |-> unlabeled_loss_names, unlabeled_loss_enabled |-> enable_unlabeled_loss, bg_loss_weight |-> bg_loss_weight]

CustomVFNetHead(bg_loss_weight) == [bg_loss_weight |-> bg_loss_weight]

state_dict_call ==
    /\ site = "teacher" /\ pc = "start"
    /\ state_dict' = teacher_state_dict_hook(module_state)
    /\ pc' = "saved"
    /\ UNCHANGED <<site, err, module_state, teacher, student_head, calls>>
    /\ UNCHANGED <<mapVars, segVars, mixVars, refVars, taskVars, lossVars>>

load_state_dict_call ==
    /\ site = "teacher" /\ pc = "saved"
    /\ state_dict' = teacher_load_state_dict_pre_hook(state_dict)
    /\ pc' = "loaded"
    /\ UNCHANGED <<site, err, module_state, teacher, student_head, calls>>
    /\ UNCHANGED <<mapVars, segVars, mixVars, refVars, taskVars, lossVars>>

enable_unlabeled_loss(mode) ==
    /\ site = "teacher" /\ pc = "train" /\ err = ""
    /\ teacher.unlabeled_loss_enabled # mode
    /\ teacher' = [teacher EXCEPT !.unlabeled_loss_enabled = mode]
    /\ UNCHANGED <<site, pc, err, module_state, state_dict, student_head, calls>>
    /\ UNCHANGED <<mapVars, segVars, mixVars, refVars, taskVars, lossVars>>

\* forward_train with or without unlabeled images in extra_0
forward_train(ul_img) ==
    /\ site = "teacher" /\ pc = "train" /\ err = ""
    /\ Len(calls) < MaxCalls
    /\ LET before == student_head.bg_loss_weight
           sl_pass == [kind |-> "sl", bg_loss_weight |-> before]
           no_ul == ~teacher.unlabeled_loss_enabled \/ teacher.unlabeled_loss_weight <= UL_WEIGHT_MIN
           override == teacher.bg_loss_weight >= 0
           ul_pass == [kind |-> "ul", bg_loss_weight |-> IF override THEN teacher.bg_loss_weight ELSE before]
           missing == \E i \in 1..Len(teacher.unlabeled_loss_names) : teacher.unlabeled_loss_names[i] \notin StudentLosses
           ul_names == {teacher.unlabeled_loss_names[i] \o "_ul" : i \in 1..Len(teacher.unlabeled_loss_names)}
       IN  IF ~ul_img
           THEN /\ calls' = Append(calls, [before |-> before, passes |-> <<sl_pass>>, losses |-> StudentLosses])
                /\ UNCHANGED <<student_head, err>>
           ELSE IF no_ul
           THEN /\ calls' = Append(calls, [before |-> before, passes |-> <<sl_pass>>, losses |-> StudentLosses \cup {"ps_recall", "ps_ratio"}])
                /\ UNCHANGED <<student_head, err>>
           ELSE /\ student_head' = IF override THEN [student_head EXCEPT !.bg_loss_weight = -1] ELSE student_head
                /\ IF missing
                   THEN /\ err' = "KeyError"
                        /\ UNCHANGED calls
                   ELSE /\ calls' = Append(calls, [before |-> before, passes |-> <<sl_pass, ul_pass>>, losses |-> StudentLosses \cup {"ps_recall", "ps_ratio"} \cup ul_names])
                        /\ UNCHANGED err
    /\ UNCHANGED <<site, pc, module_state, state_dict, teacher>>
    /\ UNCHANGED <<mapVars, segVars, mixVars, refVars, taskVars, lossVars>>

InitTeacher ==
    /\ site = "teacher" /\ err = ""
    /\ cls_a = <<>> /\ cls_b = <<>>
    /\ src2dst = <<>> /\ data2model = <<>> /\ adapt_results = <<>>
    /\ new_class_indices = <<>> /\ model2data = <<>>
    /\ img_indices = [old |-> <<>>, new |-> <<>>]
    /\ model2chkpt = <<>>
    /\ IdleLabels /\ IdleSeg /\ IdleMix /\ IdleRefine /\ IdleTask /\ IdleLoss
    /\ \/ /\ pc = "start"
          /\ \E params \in SeqsUpTo(InnerKeys, MaxParams) : Len(params) >= 1 /\ NoDup(params) /\ module_state = ModuleState(params)
          /\ state_dict = <<>> /\ teacher = <<>> /\ student_head = <<>> /\ calls = <<>>
       \/ /\ pc = "train"
          /\ teacher \in {UnbiasedTeacher(w, n, e, b) : w \in {0, 1, 1000}, n \in {<<"loss_cls">>, <<"loss_cls", "loss_iou">>}, e \in BOOLEAN, b \in {-1, 0, 1}}
          /\ student_head \in {CustomVFNetHead(b) : b \in {-1, 0, 1}}
          /\ module_state = <<>> /\ state_dict = <<>> /\ calls = <<>>

NextTeacher ==
    \/ state_dict_call
    \/ load_state_dict_call
    \/ \E mode \in BOOLEAN : enable_unlabeled_loss(mode)
    \/ \E ul_img \in BOOLEAN : forward_train(ul_img)

SpecTeacher == InitTeacher /\ [][NextTeacher]_vars

\* the sample's boxes whose class the destination list lacks (0-based)
DroppedBoxes == {b \in 0..(Len(data.gt_labels) - 1) : PyGet(data.gt_labels, b) = -1}

SegDone == site = "seg" /\ pc = "done"

\* C19: SegIncrVOCDataset.statistics sets every pixel of value 255 to 0 and
\* changes no other pixel before it looks any class up: afterwards no loaded
\* map holds 255, every pixel value is a valid index into
\* ['background'] + classes, the class of every pixel value present in a map
\* is found in that map's label schema, and no lookup raises.
C19_IgnoreBecomesBackground ==
    SegDone =>
        /\ err = ""
        /\ Len(gt_seg_maps) = Len(seg_map_files)
        /\ \A i \in 1..Len(seg_map_files) :
              /\ Len(gt_seg_maps[i]) = Len(seg_map_files[i])
              /\ \A p \in 1..Len(seg_map_files[i]) :
                    LET v == gt_seg_maps[i][p]
                    IN /\ v = IF seg_map_files[i][p] = IGNORE_LABEL THEN 0 ELSE seg_map_files[i][p]
                       /\ v # IGNORE_LABEL
                       /\ v \in 0..Len(cls_b)
                       /\ PyGet(model2data[i], v) # -1

\* C19 witness: a processed map that held an ignore pixel next to a pixel of
\* a real class; the ignore pixel now counts as background.
C19_Witness ==
    /\ SegDone /\ err = ""
    /\ \E i \in 1..Len(seg_map_files) :
          /\ seg_map_files[i] = <<IGNORE_LABEL, 1>>
          /\ gt_seg_maps[i] = <<0, 1>>
          /\ PyGet(model2data[i], 0) = 0

\* sample idx (0-based) has a pixel of a class named in new_classes
HasNewClassPixel(idx) ==
    \E p \in 1..Len(gt_seg_maps[idx + 1]) :
        PyGet(seg_classes(cls_b), gt_seg_maps[idx + 1][p]) \in Range(cls_a)

\* img_indices['old'] and ['new'] hold every sample index exactly once
IsPartition ==
    LET all == img_indices.old \o img_indices.new
    IN /\ NoDup(all)
       /\ Range(all) = 0..(Len(seg_map_files) - 1)

\* C20 (as stated): after SegIncrVOCDataset is constructed, img_indices['old']
\* and img_indices['new'] are disjoint and together hold every sample index
\* 0..N-1 exactly once, and an index is in 'new' if and only if its map has
\* at least one pixel of a class named in new_classes; a new class name that
\* is not in classes puts no sample in 'new'.
C20_NewIffNewClassPixel ==
    (SegDone /\ err = "") =>
        /\ IsPartition
        /\ \A idx \in 0..(Len(seg_map_files) - 1) :
              (idx \in Range(img_indices.new)) <=> HasNewClassPixel(idx)

\* What the code does: the index sets partition the samples, and a sample is
\* 'new' iff it has a pixel of a named new class, or some new class name is
\* not in classes (index -1, read as the last entry of model2data) and the
\* sample has a pixel of the last class of ['background'] + classes.
C20_CodePartition ==
    (SegDone /\ err = "") =>
        /\ IsPartition
        /\ \A idx \in 0..(Len(seg_map_files) - 1) :
              (idx \in Range(img_indices.new)) <=>
                  \/ HasNewClassPixel(idx)
                  \/ /\ \E k \in 1..Len(cls_a) : cls_a[k] \notin Range(cls_b)
                     /\ Len(cls_b) \in Range(gt_seg_maps[idx + 1])

\* C20 failing state: new_classes names a class the dataset does not have,
\* and a sample with pixels of old classes only is filed under 'new'.
C20_Witness ==
    /\ SegDone /\ err = ""
    /\ \E k \in 1..Len(cls_a) : cls_a[k] \notin Range(cls_b)
    /\ \E idx \in Range(img_indices.new) : ~HasNewClassPixel(idx)

(***************************************************************************)
(* Properties of the epochs of a training run.                             *)
(***************************************************************************)
\* an epoch has just been trained on runner.data_loader
EpochTrained == site = "configure" /\ pc \in {"before_epoch", "trained"} /\ runner.epoch > 0

ConfigureStep == site = "configure" /\ pc = "start" /\ pc' = "configured"

\* the request needs an entry the checkpoint metadata does not have
LacksTasks == TaskTruthy(cfg.train.tasks) /\ ~TaskTruthy(model_meta.tasks)
LacksClasses == ~TaskTruthy(cfg.train.tasks) /\ ~ListTruthy(model_meta.CLASSES)
NoConfigClasses == Len(cfg.model_classes) = 0 /\ Len(cfg.data_classes) = 0

\* C22 (as amended): configure_task raises KeyError, in training and in
\* evaluation, when the train data declares tasks and the metadata has no
\* 'tasks'.  When the request is by classes and the metadata has no
\* 'CLASSES', the entry is first filled from the configuration (the model's
\* classes, else the data classes) and the label space is derived from that;
\* KeyError for the missing entry is raised only when the configuration has
\* neither list (in training always, in evaluation when new_classes is
\* declared non-empty).
C22_MissingMetadata ==
    [][ConfigureStep =>
        /\ LacksTasks => (err' = "KeyError" /\ ~cfg_ret'.returned)
        /\ (LacksClasses /\ NoConfigClasses /\ (training \/ ListTruthy(cfg.train.new_classes))) =>
               (err' = "KeyError" /\ ~cfg_ret'.returned)
        /\ (LacksClasses /\ ~NoConfigClasses) =>
               /\ model_meta'.CLASSES = IF Len(cfg.model_classes) > 0 THEN cfg.model_classes
                                        ELSE cfg.data_classes
               /\ err' = "KeyError" => cfg.task_adapt.op \notin {"REPLACE", "MERGE"}]_vars

\* C22 witness: a training call whose metadata had no CLASSES returned a
\* destination list derived from the data classes of the configuration.
C22_Witness ==
    /\ site = "configure" /\ pc = "configured" /\ err = "" /\ training
    /\ cfg.model_classes = <<>> /\ cfg.data_classes # <<>>
    /\ model_meta.CLASSES = cfg.data_classes
    /\ cfg_ret.returned /\ cfg_ret.dst_classes # ABSENT

\* C22 (as stated): whenever the metadata lacks the entry the request needs
\* ('tasks' when the train data declares tasks, 'CLASSES' when it declares
\* new_classes), configure_task fails with KeyError, in training and in
\* evaluation.
C22_Original_AlwaysMetadataError ==
    [][ConfigureStep =>
        /\ LacksTasks => err' = "KeyError"
        /\ (LacksClasses /\ ListTruthy(cfg.train.new_classes)) => err' = "KeyError"]_vars

\* 'mpa' adaptation requested in training on a dataset type outside the allow-list
Unsupported ==
    /\ training /\ cfg.task_adapt.type = "mpa"
    /\ cfg.train.type \notin {"MPAClsDataset", "ClsDirDataset", "ClsTVDataset"}

\* C23 (as amended): when 'mpa' adaptation is requested in training on a train
\* dataset whose type is not in the allow-list, configure_task fails and
\* registers no TaskAdaptHook, in class mode and in task mode alike.  The
\* error is NotImplementedError unless the lines before the allow-list check
\* raise first: KeyError when the metadata entry is missing or the op is not
\* REPLACE or MERGE, ValueError when REPLACE is given no new class.
C23_UnsupportedDataset ==
    [][(ConfigureStep /\ Unsupported) =>
        LET task_mode == TaskTruthy(cfg.train.tasks)
            meta_gap == IF task_mode THEN ~TaskTruthy(model_meta.tasks)
                        ELSE ~ListTruthy(model_meta'.CLASSES)
            bad_op == cfg.task_adapt.op \notin {"REPLACE", "MERGE"}
            empty_replace == /\ ~task_mode /\ cfg.task_adapt.op = "REPLACE"
                             /\ Len(cfg'.train.new_classes) = 0
        IN /\ ~cfg'.custom_hooks.registered
           /\ ~cfg_ret'.returned
           /\ err' = IF meta_gap \/ bad_op THEN "KeyError"
                     ELSE IF empty_replace THEN "ValueError"
                     ELSE "NotImplementedError"]_vars

\* C23 witness: a task-mode call on an unsupported dataset type that failed
\* with NotImplementedError and left no hook behind.
C23_Witness ==
    /\ site = "configure" /\ pc = "configured"
    /\ Unsupported /\ TaskTruthy(cfg.train.tasks)
    /\ err = "NotImplementedError"
    /\ ~cfg.custom_hooks.registered

\* C23 (as stated): on an unsupported dataset type configure_task fails with
\* NotImplementedError and registers no hook, and no other error kind is
\* raised first.
C23_Original_NoOtherErrorFirst ==
    [][(ConfigureStep /\ Unsupported) =>
        /\ err' = "NotImplementedError"
        /\ ~cfg'.custom_hooks.registered]_vars

(***************************************************************************)
(* Properties of the configuration configure_task leaves behind.           *)
(***************************************************************************)
\* C25: whenever configure_task returns normally in training with
\* task_adapt.type 'mpa', cfg.model.head.num_classes is the length of the
\* returned dst_classes, the train dataset's classes are dst_classes, and the
\* registered TaskAdaptHook (its config and the hook object built from it)
\* has src_classes equal to the old classes read from the metadata and
\* dst_classes equal to dst_classes.
C25_HeadMatchesDestination ==
    MpaConfigured =>
        /\ cfg_ret.returned
        /\ cfg_ret.dst_classes # ABSENT
        /\ cfg.model.head.num_classes = Len(cfg_ret.dst_classes)
        /\ cfg.train.classes = cfg_ret.dst_classes
        /\ cfg.custom_hooks.registered
        /\ cfg.custom_hooks.src_classes = model_meta.CLASSES
        /\ cfg.custom_hooks.dst_classes = cfg_ret.dst_classes
        /\ pc \in {"before_epoch", "train_epoch", "trained"} =>
               /\ hook.src_classes = model_meta.CLASSES
               /\ hook.dst_classes = cfg_ret.dst_classes

\* C25 witness: a MERGE that added a class: the hook is built, the head has
\* one output more than the checkpoint had classes.
C25_Witness ==
    /\ MpaConfigured /\ pc = "before_epoch"
    /\ cfg.task_adapt.op = "MERGE"
    /\ Len(hook.dst_classes) = Len(hook.src_classes) + 1
    /\ cfg.model.head.num_classes = Len(hook.dst_classes)

\* TaskAdaptHook.before_epoch is called with sampler_flag true
BeforeEpochStep ==
    /\ site = "configure" /\ pc = "before_epoch" /\ pc' = "train_epoch"
    /\ hook.sampler_flag

\* what every call of before_epoch with sampler_flag true does to the loader
NewLoaderKeepsSettings ==
    /\ runner'.data_loader.id # runner.data_loader.id
    /\ runner'.data_loader.sampler.type = "ClsIncrSampler"
    /\ runner'.data_loader.sampler.dataset = runner'.data_loader.dataset
    /\ runner'.data_loader.sampler.batch_size = runner.data_loader.batch_size
    /\ runner'.data_loader.batch_size = runner.data_loader.batch_size
    /\ runner'.data_loader.num_workers = runner.data_loader.num_workers
    /\ runner'.data_loader.collate_fn = runner.data_loader.collate_fn
    /\ runner'.data_loader.worker_init_fn = runner.data_loader.worker_init_fn

C26_CodeUnwrapsOncePerCall ==
    [][BeforeEpochStep =>
        /\ NewLoaderKeepsSettings
        /\ runner'.data_loader.dataset =
               IF Len(runner.data_loader.dataset.layers) > 1
               THEN Dataset(Tail(runner.data_loader.dataset.layers))
               ELSE runner.data_loader.dataset]_vars

\* the part of a teacher or student key after its 'model_t.' / 'model_s.' prefix
InnerKey(k) == SubSeq(k, 3, Len(k))
HasMarker(k) == str_contains(k, "model_t") \/ str_contains(k, "model_s")
RoundTripDone == site = "teacher" /\ pc = "loaded"

\* C27: for a state dict whose keys are teacher keys ('model_t.' prefix) or
\* student keys ('model_s.' prefix), state_dict_hook followed by
\* load_state_dict_pre_hook yields a dict with the same keys and values: no
\* entry is lost, renamed or overwritten.
C27_RoundTrip ==
    RoundTripDone => Range(state_dict) = Range(module_state)

\* what the code does: the round trip is the identity when no key carries
\* 'model_t.' or 'model_s.' after its prefix
C27_CodeRoundTripPlainKeys ==
    (RoundTripDone /\ \A i \in 1..Len(module_state) : ~HasMarker(InnerKey(module_state[i][1])))
        => Range(state_dict) = Range(module_state)

C27_Witness ==
    /\ RoundTripDone
    /\ \E i \in 1..Len(module_state) : HasMarker(InnerKey(module_state[i][1]))
    /\ Range(state_dict) # Range(module_state)

\* configure_task has returned in training with type 'mpa' for a classifier
\* whose checkpoint weights are mixed
MixerConfigured == MpaConfigured /\ cfg.model.type \in WEIGHT_MIX_CLASSIFIER

\* C28: whenever configure_task (training, type 'mpa', weight-mixing
\* classifier) returns normally, cfg.model.task_adapt.dst_classes is the
\* refined destination class list dst_classes, the one the head is sized
\* for, and task_adapt.src_classes is the old class list, under REPLACE and
\* under MERGE.
C28_MixerLabelSpace ==
    MixerConfigured =>
        /\ cfg.model.task_adapt.set
        /\ cfg.model.task_adapt.dst_classes = cfg_ret.dst_classes
        /\ Len(cfg.model.task_adapt.dst_classes) = cfg.model.head.num_classes
        /\ cfg.model.task_adapt.src_classes = model_meta.CLASSES

\* what the code does: the mixer is handed the data pipeline's and the model
\* config's class lists as they were read at the start of the call
C28_CodeHandsConfiguredClasses ==
    MixerConfigured =>
        /\ cfg.model.task_adapt.set
        /\ cfg.model.task_adapt.dst_classes = cfg.data_classes
        /\ cfg.model.task_adapt.src_classes = cfg.model_classes

\* a MERGE after which the mixer's destination list holds the head's classes
\* in another order
C28_Witness ==
    /\ MixerConfigured
    /\ cfg.task_adapt.op = "MERGE"
    /\ cfg.model.task_adapt.dst_classes # cfg_ret.dst_classes
    /\ Range(cfg.model.task_adapt.dst_classes) = Range(cfg_ret.dst_classes)
    /\ Len(cfg.model.task_adapt.dst_classes) = cfg.model.head.num_classes

\* forward_train has returned normally at least once
TrainReturned == site = "teacher" /\ pc = "train" /\ err = "" /\ calls # <<>>
LastCall == calls[Len(calls)]

\* C29: on every normal return of UnbiasedTeacher.forward_train,
\* model_s.bbox_head.bg_loss_weight has the value it had before the call.
C29_HeadWeightRestored ==
    TrainReturned => student_head.bg_loss_weight = LastCall.before

\* what the code does: a call that made the unsupervised student pass with a
\* teacher bg_loss_weight >= 0 leaves -1 on the head, whatever was there
\* before; the pass itself saw the teacher's weight; every other call leaves
\* the head as it was
C29_CodeResetsToDefault ==
    TrainReturned =>
        IF Len(LastCall.passes) = 2 /\ teacher.bg_loss_weight >= 0
        THEN /\ student_head.bg_loss_weight = -1
             /\ LastCall.passes[2].bg_loss_weight = teacher.bg_loss_weight
        ELSE /\ student_head.bg_loss_weight = LastCall.before
             /\ \A i \in 1..Len(LastCall.passes) : LastCall.passes[i].bg_loss_weight = LastCall.before

\* a head built with bg_loss_weight 1 after an unsupervised pass under a
\* teacher with bg_loss_weight 0
C29_Witness ==
    /\ TrainReturned
    /\ Len(LastCall.passes) = 2
    /\ LastCall.before = 1 /\ teacher.bg_loss_weight = 0
    /\ student_head.bg_loss_weight = -1

\* a refiner returns normally
RefineReturns == site \in {"refine_cls", "refine_tasks"} /\ pc = "start" /\ pc' = "done" /\ err' = ""

\* the list objects a dict object holds (none for no dict)
ListsOf(d) == IF d = 0 THEN {} ELSE {dicts[d][t] : t \in Keys(dicts[d])}

\* the objects of the train config and of the checkpoint metadata
InputLists == ({train_cfg.new_classes, meta.CLASSES} \ {0}) \cup ListsOf(train_cfg.tasks) \cup ListsOf(meta.tasks)
InputDicts == {train_cfg.tasks, meta.tasks} \ {0}

\* what the train config and the metadata hold
InputContent ==
    [new_classes |-> IF train_cfg.new_classes = 0 THEN ABSENT ELSE lists[train_cfg.new_classes],
     CLASSES |-> IF meta.CLASSES = 0 THEN ABSENT ELSE lists[meta.CLASSES],
     new_tasks |-> IF train_cfg.tasks = 0 THEN MISSING ELSE TaskSetOf(lists, dicts[train_cfg.tasks]),
     old_tasks |-> IF meta.tasks = 0 THEN MISSING ELSE TaskSetOf(lists, dicts[meta.tasks])]

\* the returned destination list or task set shares no object with the
\* inputs, so an in-place change of it cannot reach them
DestinationNotAliased ==
    /\ ret.dst_classes \notin InputLists
    /\ ret.model_tasks \notin InputDicts
    /\ ListsOf(ret.model_tasks) \cap InputLists = {}

\* C30: refine_cls and refine_tasks, under REPLACE or MERGE, leave the train
\* config's new_classes / tasks and the metadata's CLASSES / tasks as they
\* were, and the destination list or task set they return does not alias
\* them: a later in-place change of it changes neither.
C30_InputsKeptAndNotAliased ==
    [][RefineReturns => (InputContent' = InputContent /\ DestinationNotAliased')]_vars

\* what the code does: the inputs are left as they were and refine_cls
\* returns a new list; refine_tasks returns the train config's own dict under
\* REPLACE and, under MERGE, a new dict that holds the train config's list
\* object for every task the checkpoint lacks or has empty
C30_CodeAliasing ==
    [][RefineReturns =>
          /\ InputContent' = InputContent
          /\ site = "refine_cls" => DestinationNotAliased'
          /\ (site = "refine_tasks" /\ adapt_type = "REPLACE") => ret'.model_tasks = train_cfg.tasks
          /\ (site = "refine_tasks" /\ adapt_type = "MERGE") =>
                 /\ ret'.model_tasks \notin InputDicts
                 /\ \A t \in TaskNames :
                        LET got == dicts'[ret'.model_tasks][t]
                            new == dicts[train_cfg.tasks][t]
                            old == dicts[meta.tasks][t]
                        IN /\ got \notin ListsOf(meta.tasks)
                           /\ (got # 0 /\ got = new) <=> (new # 0 /\ (old = 0 \/ Len(lists[old]) = 0))]_vars

\* refine_tasks returned under REPLACE: the returned task set is the train
\* config's dict object
C30_Witness ==
    /\ site = "refine_tasks" /\ pc = "done" /\ err = ""
    /\ adapt_type = "REPLACE"
    /\ ret.model_tasks = train_cfg.tasks
    /\ Keys(dicts[ret.model_tasks]) # {}


====
